---------------------------- MODULE Spec2Model ----------------------------
(***************************************************************************)
(* Model of the AISC 360 W-shape validator (aisc_w_validator.py).          *)
(*                                                                         *)
(* Python floats are modelled as IEEE 754 binary64 numbers, rounded to     *)
(* nearest, ties to even, after every operation.  A power x ** y is the    *)
(* pow of the C library, which is not always the nearest float.            *)
(***************************************************************************)
EXTENDS Integers, Sequences, FiniteSets, TLC

\* perfil, cargas, resultados: the attributes of one ValidadorAISC object;
\* perfiles_w: the catalogue dictionary of the module perfiles_aisc;
\* op, argumento, ret: the last method or function called, the argument it was
\* handed (None for the calls that take none) and what it returned or raised
VARIABLES perfil, cargas, resultados, perfiles_w, op, argumento, ret,
          paso, parcial, orden

vars == <<perfil, cargas, resultados, perfiles_w, op, argumento, ret,
          paso, parcial, orden>>

-----------------------------------------------------------------------------
(* Natural numbers of any size: sequences of limbs in base 2^14, the least *)
(* significant limb first (TLC integers have 32 bits).                     *)

B == 16384

P2 == <<2, 4, 8, 16, 32, 64, 128, 256, 512, 1024, 2048, 4096, 8192, 16384,
        32768, 65536, 131072, 262144, 524288, 1048576, 2097152, 4194304,
        8388608, 16777216, 33554432, 67108864, 134217728, 268435456,
        536870912, 1073741824>>

Pow2(k) == IF k = 0 THEN 1 ELSE P2[k]

Abs(n) == IF n < 0 THEN -n ELSE n

Sgn(n) == IF n < 0 THEN -1 ELSE IF n = 0 THEN 0 ELSE 1

Max2(i, j) == IF i >= j THEN i ELSE j

\* the only element of a singleton set: Val({e(x) : x \in {a}}) evaluates a
\* once and hands its value to e
Val(S) == CHOOSE r \in S : TRUE

\* limb i of a, zero beyond its length
BLimb(a, i) == IF i >= 1 /\ i <= Len(a) THEN a[i] ELSE 0

\* the limbs from the i-th on of a + sg * b, with the carry c coming in
\* (sg is 1 or -1, and a >= b when it is -1)
RECURSIVE BAddFrom(_, _, _, _, _)
BAddFrom(a, b, sg, i, c) ==
    IF i > Len(a) /\ i > Len(b) THEN (IF c = 0 THEN << >> ELSE <<c>>)
    ELSE Val({<<t % B>> \o BAddFrom(a, b, sg, i + 1, t \div B) :
              t \in {BLimb(a, i) + (sg * BLimb(b, i)) + c}})

BAdd(a, b) == BAddFrom(a, b, 1, 1, 0)

\* a - b for a >= b
BSub(a, b) == BAddFrom(a, b, -1, 1, 0)

RECURSIVE BCmpFrom(_, _, _)
BCmpFrom(a, b, i) ==
    IF i = 0 THEN 0
    ELSE IF BLimb(a, i) # BLimb(b, i) THEN (IF BLimb(a, i) < BLimb(b, i) THEN -1 ELSE 1)
    ELSE BCmpFrom(a, b, i - 1)

\* -1, 0 or 1 as a < b, a = b, a > b
BCmp(a, b) == BCmpFrom(a, b, Max2(Len(a), Len(b)))

\* the limbs from the i-th on of a * n, with the carry c coming in
RECURSIVE BMulSmallFrom(_, _, _, _)
BMulSmallFrom(a, n, i, c) ==
    IF i > Len(a) THEN (IF c = 0 THEN << >> ELSE <<c % B>> \o BMulSmallFrom(a, n, i, c \div B))
    ELSE Val({<<t % B>> \o BMulSmallFrom(a, n, i + 1, t \div B) : t \in {(a[i] * n) + c}})

\* a * n for 0 <= n < 2^16
BMulSmall(a, n) == BMulSmallFrom(a, n, 1, 0)

\* the limbs from the i-th on of the number with the columns raw, each below
\* 2^31 - 2^17, and the carry c coming in
RECURSIVE BCarry(_, _, _)
BCarry(raw, i, c) ==
    IF i > Len(raw) THEN (IF c = 0 THEN << >> ELSE <<c % B>> \o BCarry(raw, i, c \div B))
    ELSE Val({<<t % B>> \o BCarry(raw, i + 1, t \div B) : t \in {raw[i] + c}})

\* a * b for a and b of four limbs
BMul4(a, b) ==
    BCarry(<<a[1] * b[1],
             (a[1] * b[2]) + (a[2] * b[1]),
             (a[1] * b[3]) + (a[2] * b[2]) + (a[3] * b[1]),
             (a[1] * b[4]) + (a[2] * b[3]) + (a[3] * b[2]) + (a[4] * b[1]),
             (a[2] * b[4]) + (a[3] * b[3]) + (a[4] * b[2]),
             (a[3] * b[4]) + (a[4] * b[3]),
             a[4] * b[4]>>, 1, 0)

\* the limbs from the j-th on of a - q * b, with the carry c coming in; when
\* a < q * b the last element is negative
RECURSIVE BSubMulFrom(_, _, _, _, _)
BSubMulFrom(a, b, q, j, c) ==
    IF j > Len(a) /\ j > Len(b) THEN (IF c = 0 THEN << >> ELSE <<c>>)
    ELSE Val({<<t % B>> \o BSubMulFrom(a, b, q, j + 1, t \div B) :
              t \in {BLimb(a, j) - (q * BLimb(b, j)) + c}})

\* the largest q at or below qhat with q * b <= a, and a - q * b: <<q, a - q * b>>
RECURSIVE BDigit(_, _, _)
BDigit(a, b, qhat) ==
    Val({IF Len(t) > 0 /\ t[Len(t)] < 0 THEN BDigit(a, b, qhat - 1) ELSE <<qhat, t>> :
         t \in {BSubMulFrom(a, b, qhat, 1, 0)}})

\* the largest q at or below qhat with (T * B + q) * q <= a, and what is left of a
RECURSIVE BDigitSq(_, _, _)
BDigitSq(a, T, qhat) ==
    Val({IF Len(t) > 0 /\ t[Len(t)] < 0 THEN BDigitSq(a, T, qhat - 1) ELSE <<qhat, t>> :
         t \in {BSubMulFrom(a, <<qhat>> \o T, qhat, 1, 0)}})

\* <<floor(a / n), a mod n>> for the limbs 1..i of a with the remainder r
\* carried in from above, 0 < n < 2^16
RECURSIVE BDivSmall(_, _, _, _)
BDivSmall(a, n, i, r) ==
    IF i = 0 THEN <<<< >>, r>>
    ELSE Val({Val({<<Append(rest[1], t \div n), rest[2]>> :
                   rest \in {BDivSmall(a, n, i - 1, t % n)}}) :
              t \in {(r * B) + a[i]}})

\* the limbs from the j-th on of floor(a / 2^(14 * q + r))
RECURSIVE BShrFrom(_, _, _, _)
BShrFrom(a, q, r, j) ==
    IF j + q > Len(a) THEN << >>
    ELSE <<(a[j + q] \div Pow2(r)) + ((BLimb(a, j + q + 1) % Pow2(r)) * Pow2(14 - r))>>
         \o BShrFrom(a, q, r, j + 1)

\* floor(a / 2^k)
BShr(a, k) == BShrFrom(a, k \div 14, k % 14, 1)

\* the limbs from the j-th on of a * 2^(14 * q + r)
RECURSIVE BShlFrom(_, _, _, _)
BShlFrom(a, q, r, j) ==
    IF j > Len(a) + q + 1 THEN << >>
    ELSE <<IF j <= q THEN 0
           ELSE ((BLimb(a, j - q) * Pow2(r)) % B) + ((BLimb(a, j - q - 1) * Pow2(r)) \div B)>>
         \o BShlFrom(a, q, r, j + 1)

\* a * 2^k
BShl(a, k) == BShlFrom(a, k \div 14, k % 14, 1)

\* bit k of a, bit 0 being the lowest
BBit(a, k) == (BLimb(a, (k \div 14) + 1) \div Pow2(k % 14)) % 2

\* one of the k lowest bits of a is set
BLow(a, k) ==
    \/ \E j \in 1..(k \div 14) : BLimb(a, j) # 0
    \/ BLimb(a, (k \div 14) + 1) % Pow2(k % 14) # 0

\* the number of significant bits of the limb 0 <= x < B
LimbBits(x) ==
    IF x < 128
    THEN (IF x < 8 THEN (IF x < 2 THEN x ELSE IF x < 4 THEN 2 ELSE 3)
          ELSE IF x < 32 THEN (IF x < 16 THEN 4 ELSE 5)
          ELSE IF x < 64 THEN 6 ELSE 7)
    ELSE IF x < 2048
    THEN (IF x < 512 THEN (IF x < 256 THEN 8 ELSE 9) ELSE IF x < 1024 THEN 10 ELSE 11)
    ELSE IF x < 8192 THEN (IF x < 4096 THEN 12 ELSE 13)
    ELSE 14

RECURSIVE BTop(_, _)
BTop(a, i) == IF i = 0 THEN 0 ELSE IF a[i] # 0 THEN i ELSE BTop(a, i - 1)

\* the number of significant bits of a, 0 for zero
BBits(a) ==
    Val({IF i = 0 THEN 0 ELSE (14 * (i - 1)) + LimbBits(a[i]) : i \in {BTop(a, Len(a))}})

\* the limbs of the integer 0 <= n < 2^31
BInt(n) == <<n % B, (n \div B) % B, n \div (B * B)>>

-----------------------------------------------------------------------------
(* IEEE 754 binary64, the float of Python: [s, m, e] is the number         *)
(* s * m * 2^e with s the sign (1 or -1) and m a natural number below 2^53 *)
(* held as four limbs; a normal number has bit 52 of m set and             *)
(* -1074 <= e <= 971, a subnormal number has e = -1074, zero is            *)
(* [1, 0, -1074], the infinities have e = 972 and not-a-number has         *)
(* e = 973, so that two floats are equal iff their records are equal.      *)
(* -0.0 is held as 0.0: the two compare equal in every test of the code.   *)
(* An expression that raises has the value Raised(n): every operation      *)
(* hands on its first raised operand, the left one first, as Python leaves *)
(* an expression at its first exception.                                   *)

MinExp == -1074

MaxExp == 971

M0 == <<0, 0, 0, 0>>

Zero == [s |-> 1, m |-> M0, e |-> MinExp]

Inf(sg) == [s |-> sg, m |-> M0, e |-> MaxExp + 1]

NaN == [s |-> 1, m |-> M0, e |-> MaxExp + 2]

\* the float expression that raised ExcNames[n]
Raised(n) == [s |-> 1, m |-> M0, e |-> MaxExp + 2 + n]

ExcNames == <<"ZeroDivisionError", "ValueError", "OverflowError">>

IsRaised(x) == x.e > MaxExp + 2

IsNaN(x) == x.e = MaxExp + 2

IsInf(x) == x.e = MaxExp + 1

IsZero(x) == x.m = M0 /\ x.e = MinExp

\* the float s * M * 2^e for M <= 2^53 that needs no rounding
Pack(sg, M, ex) ==
    IF BTop(M, Len(M)) = 0 THEN Zero
    ELSE IF BLimb(M, 4) = 2048
    THEN (IF ex + 1 > MaxExp THEN Inf(sg) ELSE [s |-> sg, m |-> <<0, 0, 0, 1024>>, e |-> ex + 1])
    ELSE IF ex > MaxExp THEN Inf(sg)
    ELSE [s |-> sg, m |-> <<BLimb(M, 1), BLimb(M, 2), BLimb(M, 3), BLimb(M, 4)>>, e |-> ex]

\* the four limbs of floor(N / 2^(14 * w + r)), given p = 2^r and pc = 2^(14 - r)
Shr4(N, w, p, pc) ==
    <<(BLimb(N, w + 1) \div p) + ((BLimb(N, w + 2) % p) * pc),
      (BLimb(N, w + 2) \div p) + ((BLimb(N, w + 3) % p) * pc),
      (BLimb(N, w + 3) \div p) + ((BLimb(N, w + 4) % p) * pc),
      (BLimb(N, w + 4) \div p) + ((BLimb(N, w + 5) % p) * pc)>>

\* M + 1 for M of four limbs, the top one growing beyond B if need be
Inc4(M) ==
    IF M[1] < B - 1 THEN <<M[1] + 1, M[2], M[3], M[4]>>
    ELSE IF M[2] < B - 1 THEN <<0, M[2] + 1, M[3], M[4]>>
    ELSE IF M[3] < B - 1 THEN <<0, 0, M[3] + 1, M[4]>>
    ELSE <<0, 0, 0, M[4] + 1>>

\* N * 2^ex without its sh lowest bits, rounded to nearest, ties to even;
\* sticky says that the exact number is a little above N * 2^ex
RoundAt(sg, N, ex, sh, sticky) ==
    Pack(sg,
         IF sh <= 0 THEN BShl(N, -sh)
         ELSE Val({IF BBit(N, sh - 1) = 1 /\ (sticky \/ BBit(N, sh) = 1 \/ BLow(N, sh - 1))
                   THEN Inc4(q) ELSE q :
                   q \in {Shr4(N, sh \div 14, Pow2(sh % 14), Pow2(14 - (sh % 14)))}}),
         ex + sh)

\* the float nearest to s * N * 2^ex
Round(sg, N, ex, sticky) ==
    Val({IF n = 0 THEN Zero ELSE RoundAt(sg, N, ex, Max2(n - 53, MinExp - ex), sticky) :
         n \in {BBits(N)}})

\* -1, 0 or 1 as |a| < |b|, |a| = |b|, |a| > |b|, for numbers
CmpMag(a, b) ==
    IF a.e # b.e THEN (IF a.e < b.e THEN -1 ELSE 1) ELSE BCmpFrom(a.m, b.m, 4)

\* -1, 0 or 1 as a < b, a = b, a > b, and 2 when one of them is not a number
\* (or raised)
FCmp(a, b) ==
    Val({IF x.e > MaxExp + 1 \/ y.e > MaxExp + 1 THEN 2
         ELSE IF IsZero(x) /\ IsZero(y) THEN 0
         ELSE IF IsZero(x) THEN -y.s
         ELSE IF IsZero(y) THEN x.s
         ELSE IF x.s # y.s THEN x.s
         ELSE x.s * CmpMag(x, y) :
         x \in {a}, y \in {b}})

FLe(a, b) == FCmp(a, b) \in {-1, 0}

FLt(a, b) == FCmp(a, b) = -1

FGe(a, b) == FCmp(a, b) \in {0, 1}

FGt(a, b) == FCmp(a, b) = 1

FNeg(a) ==
    Val({IF x.e > MaxExp + 1 \/ IsZero(x) THEN x ELSE [s |-> -x.s, m |-> x.m, e |-> x.e] : x \in {a}})

\* abs keeping the sign
FConSigno(a) == a

FAbs(a) == Val({[s |-> 1, m |-> x.m, e |-> x.e] : x \in {a}})

\* hi + lo for numbers other than zero with hi.e >= lo.e
\* (when lo is more than 58 bits below hi it only decides the rounding, and
\* one unit 58 bits below hi rounds as lo does)
AddOrdered(hi, lo) ==
    Val({Val({Round(t[1], t[2], t[3], FALSE) :
              t \in {IF hi.s = lo.s THEN <<hi.s, BAdd(X, L[1]), L[2]>>
                     ELSE IF BCmp(X, L[1]) >= 0 THEN <<hi.s, BSub(X, L[1]), L[2]>>
                     ELSE <<lo.s, BSub(L[1], X), L[2]>>}}) :
         X \in {BShl(hi.m, IF hi.e - lo.e > 58 THEN 58 ELSE hi.e - lo.e)},
         L \in {IF hi.e - lo.e > 58 THEN <<<<1>>, hi.e - 58>> ELSE <<lo.m, lo.e>>}})

FAdd(a, b) ==
    Val({IF IsRaised(x) THEN x
         ELSE IF IsRaised(y) THEN y
         ELSE IF IsNaN(x) \/ IsNaN(y) THEN NaN
         ELSE IF IsInf(x) THEN (IF IsInf(y) /\ x.s # y.s THEN NaN ELSE x)
         ELSE IF IsInf(y) \/ IsZero(x) THEN y
         ELSE IF IsZero(y) THEN x
         ELSE AddOrdered(IF x.e >= y.e THEN x ELSE y, IF x.e >= y.e THEN y ELSE x) :
         x \in {a}, y \in {b}})

FSub(a, b) == FAdd(a, FNeg(b))

FMul(a, b) ==
    Val({IF IsRaised(x) THEN x
         ELSE IF IsRaised(y) THEN y
         ELSE IF IsNaN(x) \/ IsNaN(y) THEN NaN
         ELSE IF IsInf(x) \/ IsInf(y)
         THEN (IF IsZero(x) \/ IsZero(y) THEN NaN ELSE Inf(x.s * y.s))
         ELSE IF IsZero(x) \/ IsZero(y) THEN Zero
         ELSE Round(x.s * y.s, BMul4(x.m, y.m), x.e + y.e, FALSE) :
         x \in {a}, y \in {b}})

\* n more digits in base B of R / Dv, for R < Dv, Dv of four limbs with the
\* top one at least B / 2: <<the digits, lowest first, with acc above them,
\* whether a remainder is left>>; the digit is at most two below the
\* quotient of the two highest limbs of R * B by the highest of Dv
RECURSIVE DivDigits(_, _, _, _)
DivDigits(R, Dv, n, acc) ==
    IF n = 0 THEN <<acc, BTop(R, Len(R)) # 0>>
    ELSE Val({Val({DivDigits(qr[2], Dv, n - 1, <<qr[1]>> \o acc) :
                   qr \in {BDigit(<<0>> \o R, Dv, IF qhat >= B THEN B - 1 ELSE qhat)}}) :
              qhat \in {((BLimb(R, 4) * B) + BLimb(R, 3)) \div Dv[4]}})

\* the mantissa of the number x # 0 brought to 56 bits, with its exponent
Norm56(x) ==
    IF x.m[4] >= 1024
    THEN <<<<(x.m[1] % 2048) * 8,
             ((x.m[2] % 2048) * 8) + (x.m[1] \div 2048),
             ((x.m[3] % 2048) * 8) + (x.m[2] \div 2048),
             (x.m[4] * 8) + (x.m[3] \div 2048)>>, x.e - 3>>
    ELSE Val({<<BShl(x.m, 56 - n), x.e - (56 - n)>> : n \in {BBits(x.m)}})

\* floor(2^56 * Nn / Dv) and whether the division left a remainder
Quotient(Nn, Dv) ==
    Val({DivDigits(IF ge THEN BSub(Nn, Dv) ELSE Nn, Dv, 4, <<IF ge THEN 1 ELSE 0>>) :
         ge \in {BCmp(Nn, Dv) >= 0}})

\* a / b, raising ZeroDivisionError for b = 0
FDiv(a, b) ==
    Val({IF IsRaised(x) THEN x
         ELSE IF IsRaised(y) THEN y
         ELSE IF IsZero(y) THEN Raised(1)
         ELSE IF IsNaN(x) \/ IsNaN(y) THEN NaN
         ELSE IF IsInf(x) THEN (IF IsInf(y) THEN NaN ELSE Inf(x.s * y.s))
         ELSE IF IsInf(y) \/ IsZero(x) THEN Zero
         ELSE Val({Val({Round(x.s * y.s, Q[1], nx[2] - ny[2] - 56, Q[2]) :
                        Q \in {Quotient(nx[1], ny[1])}}) :
                   nx \in {Norm56(x)}, ny \in {Norm56(y)}}) :
         x \in {a}, y \in {b}})

RECURSIVE ISqrtIter(_, _)
ISqrtIter(n, x) ==
    Val({IF y >= x THEN x ELSE ISqrtIter(n, y) : y \in {(x + (n \div x)) \div 2}})

\* floor of the square root of 2^26 <= n < 2^28
ISqrt(n) == ISqrtIter(n, 16384)

\* the digits in base B of the square root that follow the k digits R, for
\* T = 2 * R of k + 1 limbs (the top one is 1), Rem the remainder so far and
\* pairs the limbs of the radicand still to bring down, two per digit:
\* <<the root, whether a remainder is left>>. The next digit q is the
\* largest with (T * B + q) * q <= Rem * B^2 + pair, at most a few below
\* the quotient of the leading limbs.
RECURSIVE SqrtDigits(_, _, _, _, _)
SqrtDigits(R, T, Rem, pairs, k) ==
    IF Len(pairs) = 0 THEN <<R, BTop(Rem, Len(Rem)) # 0>>
    ELSE Val({Val({Val({SqrtDigits(<<qr[1]>> \o R,
                                   BMulSmall(<<qr[1]>> \o R, 2),
                                   qr[2],
                                   SubSeq(pairs, 1, Len(pairs) - 2),
                                   k + 1) :
                        qr \in {BDigitSq(Remp, T, IF qhat >= B THEN B - 1 ELSE qhat)}}) :
                   qhat \in {(BLimb(Remp, k + 1) + (BLimb(Remp, k + 2) * B)
                              + (BLimb(Remp, k + 3) * B * B)) \div (T[k] + (T[k + 1] * B))}}) :
              Remp \in {<<pairs[Len(pairs) - 1], pairs[Len(pairs)]>> \o Rem}})

\* the square root, rounded to nearest, of N * 2^ex for N of eight limbs,
\* 2^110 <= N < 2^112, and ex even
SqrtMant(N, ex) ==
    Val({Val({Round(1, rs[1], ex \div 2, rs[2]) :
              rs \in {SqrtDigits(<<r>>, BMulSmall(<<r>>, 2),
                                 BInt((N[7] + (N[8] * B)) - (r * r)),
                                 SubSeq(N, 1, 6), 1)}}) :
         r \in {ISqrt(N[7] + (N[8] * B))}})

\* the mantissa of the number x # 0 brought to 53 bits, with its exponent
Norm53(x) == Val({<<BShl(x.m, 53 - n), x.e - (53 - n)>> : n \in {BBits(x.m)}})

\* math.sqrt(a), raising ValueError for a < 0
FSqrt(a) ==
    Val({IF x.s = -1 /\ x.e <= MaxExp + 1 THEN Raised(2)
         ELSE IF x.e > MaxExp \/ IsZero(x) THEN x
         ELSE Val({SqrtMant(<<0, 0, 0, 0>> \o SubSeq(BShl(nx[1], 2 + (nx[2] % 2)), 1, 4),
                            nx[2] - 58 - (nx[2] % 2)) :
                   nx \in {Norm53(x)}}) :
         x \in {a}})

\* a * 10^k
RECURSIVE BTimes10(_, _)
BTimes10(a, k) == IF k = 0 THEN a ELSE BTimes10(BMulSmall(a, 10), k - 1)

\* <<floor(a / 10^k), whether a remainder is left>>
RECURSIVE BOver10(_, _, _)
BOver10(a, k, sticky) ==
    IF k = 0 THEN <<a, sticky>>
    ELSE Val({BOver10(qr[1], k - 1, sticky \/ qr[2] # 0) : qr \in {BDivSmall(a, 10, Len(a), 0)}})

\* the float of the decimal literal m * 10^ex, e.g. D(658, -3) for 0.658
D(m, ex) ==
    IF m = 0 THEN Zero
    ELSE Val({Round(Sgn(m), qs[1], IF ex >= 0 THEN 0 ELSE -(64 - (4 * ex)), qs[2]) :
              qs \in {IF ex >= 0 THEN <<BTimes10(BInt(Abs(m)), ex), FALSE>>
                      ELSE BOver10(BShl(BInt(Abs(m)), 64 - (4 * ex)), -ex, FALSE)}})

One == [s |-> 1, m |-> <<0, 0, 0, 1024>>, e |-> -52]

\* the integer of at most 30 bits held in the limbs a
BToInt(a) == BLimb(a, 1) + (BLimb(a, 2) * B) + (BLimb(a, 3) * B * B)

\* the float of the entry t = <<sign, four limbs, exponent>> of a table
Entrada(t) == [s |-> t[1], m |-> <<t[2], t[3], t[4], t[5]>>, e |-> t[6]]

\* the integer that the float v holds, for |v| < 2^31
FToInt(v) == IF IsZero(v) THEN 0 ELSE v.s * BToInt(BShr(v.m, -v.e))

\* the float of the integer k
IntF(k) == IF k = 0 THEN Zero ELSE Round(Sgn(k), BInt(Abs(k)), 0, FALSE)

\* sa * X + sb * Y for bignums at the one exponent ex, as <<sign, bignum,
\* exponent>>
SumSigned(sa, X, sb, Y, ex) ==
    IF sa = sb THEN <<sa, BAdd(X, Y), ex>>
    ELSE IF BCmp(X, Y) >= 0 THEN <<sa, BSub(X, Y), ex>>
    ELSE <<sb, BSub(Y, X), ex>>

\* h + l as <<sign, bignum, exponent>> for the terms h and l, each <<sign,
\* bignum # 0 of at most 106 bits, exponent>>, the exponent of h not below
\* that of l; a term more than 110 bits below the other only decides the
\* rounding, as one unit there does
SumTerms(h, l) ==
    IF h[3] - l[3] > 110 THEN SumSigned(h[1], BShl(h[2], 110), l[1], <<1>>, h[3] - 110)
    ELSE SumSigned(h[1], BShl(h[2], h[3] - l[3]), l[1], l[2], l[3])

\* fma(a, b, c) of the processor for numbers: a * b + c rounded once
FFma(a, b, c) ==
    Val({IF IsZero(x) \/ IsZero(y) THEN z
         ELSE Val({Val({Round(t[1], t[2], t[3], FALSE) :
                        t \in {IF IsZero(z) THEN p
                               ELSE SumTerms(IF p[3] >= z.e THEN p ELSE <<z.s, z.m, z.e>>,
                                             IF p[3] >= z.e THEN <<z.s, z.m, z.e>> ELSE p)}}) :
                   p \in {<<x.s * y.s, BMul4(x.m, y.m), x.e + y.e>>}}) :
         x \in {a}, y \in {b}, z \in {c}})

Two == [s |-> 1, m |-> <<0, 0, 0, 1024>>, e |-> -51]

-----------------------------------------------------------------------------
(* x ** y of CPython (float_pow) hands the two floats to pow() of the C      *)
(* library once its own special cases are past (a zero, an infinity, a nan,  *)
(* x = 1).  The power that comes back is not always the correctly rounded    *)
(* one: it is what the algorithm of the library computes (glibc 2.36,        *)
(* sysdeps/ieee754/dbl-64/e_pow.c, the build with fused multiply-add of      *)
(* x86-64).  That algorithm is followed here operation by operation: its     *)
(* straight-line parts are lists of instructions <<target, operation,        *)
(* operands>> on named registers, run by Run.                                *)

\* the constants of __pow_log_data (ln2hi, ln2lo, poly A[0] .. A[6]) and of
\* __exp_data (invln2N, shift, negln2hiN, negln2loN, poly C2 .. C5), with 1,
\* -1, 2^1009 and 2^-1022
PowConsts ==
    [one |-> Entrada(<<1, 0, 0, 0, 1024, -52>>),
     m1 |-> Entrada(<<-1, 0, 0, 0, 1024, -52>>),
     Ln2hi |-> Entrada(<<1, 14336, 15336, 9263, 1419, -53>>),
     Ln2lo |-> Entrada(<<1, 10032, 3869, 13689, 1980, -97>>),
     A0 |-> Entrada(<<-1, 0, 0, 0, 1024, -53>>),
     A1 |-> Entrada(<<-1, 5472, 5461, 5461, 1365, -53>>),
     A2 |-> Entrada(<<1, 6, 0, 0, 1024, -53>>),
     A3 |-> Entrada(<<1, 5454, 9573, 6553, 1638, -53>>),
     A4 |-> Entrada(<<-1, 9338, 5286, 5461, 1365, -53>>),
     A5 |-> Entrada(<<-1, 1513, 11553, 5561, 1170, -52>>),
     A6 |-> Entrada(<<1, 16323, 11416, 696, 1024, -52>>),
     InvLn2N |-> Entrada(<<1, 766, 5294, 5238, 1477, -45>>),
     Shift |-> Entrada(<<1, 0, 0, 0, 1536, 0>>),
     NegLn2hiN |-> Entrada(<<-1, 0, 15336, 9263, 1419, -60>>),
     NegLn2loN |-> Entrada(<<-1, 15162, 12920, 14763, 1853, -99>>),
     C2 |-> Entrada(<<1, 15805, 16383, 16383, 2047, -54>>),
     C3 |-> Entrada(<<1, 5180, 5461, 5461, 1365, -55>>),
     C4 |-> Entrada(<<1, 11153, 15452, 5468, 1365, -57>>),
     C5 |-> Entrada(<<1, 4119, 7827, 4374, 1092, -59>>),
     two1009 |-> Entrada(<<1, 0, 0, 0, 1024, 957>>),
     twom1022 |-> Entrada(<<1, 0, 0, 0, 1024, -1074>>)]

\* __pow_log_data.tab: for each of the 128 intervals of [0x1.69555p-1,
\* 0x1.69555p0) its <<invc, logc, logctail>>, 1 / c and the two parts of log(c)
\* for a point c of the interval
PowLogTab ==
    <<<<<<1, 0, 0, 0, 1448, -52>>, <<-1, 2048, 2791, 2095, 1419, -54>>, <<1, 5760, 8413, 578, 1709, -100>>>>,
      <<<<1, 0, 0, 0, 1440, -52>>, <<-1, 2048, 15712, 7131, 1396, -54>>, <<-1, 14112, 9091, 4237, 1833, -98>>>>,
      <<<<1, 0, 0, 0, 1432, -52>>, <<-1, 6144, 7445, 10097, 1373, -54>>, <<-1, 4205, 5849, 10829, 1240, -97>>>>,
      <<<<1, 0, 0, 0, 1424, -52>>, <<-1, 14336, 7351, 10968, 1350, -54>>, <<-1, 10197, 15041, 3657, 1441, -101>>>>,
      <<<<1, 0, 0, 0, 1416, -52>>, <<-1, 14336, 5597, 9721, 1327, -54>>, <<-1, 16096, 3236, 13977, 1286, -99>>>>,
      <<<<1, 0, 0, 0, 1408, -52>>, <<-1, 8192, 2161, 6332, 1304, -54>>, <<1, 1228, 8498, 756, 1270, -98>>>>,
      <<<<1, 0, 0, 0, 1400, -52>>, <<-1, 10240, 6682, 776, 1281, -54>>, <<1, 2874, 13832, 12094, 1808, -102>>>>,
      <<<<1, 0, 0, 0, 1392, -52>>, <<-1, 2048, 5541, 9413, 1257, -54>>, <<1, 5216, 6470, 7272, 1068, -97>>>>,
      <<<<1, 0, 0, 0, 1384, -52>>, <<-1, 0, 10850, 15833, 1233, -54>>, <<1, 146, 4886, 5341, 1366, -97>>>>,
      <<<<1, 0, 0, 0, 1376, -52>>, <<-1, 8192, 11140, 3627, 1210, -54>>, <<1, 11224, 9948, 12777, 1438, -97>>>>,
      <<<<1, 0, 0, 0, 1368, -52>>, <<-1, 2048, 3962, 5537, 1186, -54>>, <<1, 12351, 6974, 8523, 1394, -98>>>>,
      <<<<1, 0, 0, 0, 1368, -52>>, <<-1, 2048, 3962, 5537, 1186, -54>>, <<1, 12351, 6974, 8523, 1394, -98>>>>,
      <<<<1, 0, 0, 0, 1360, -52>>, <<-1, 14336, 12093, 5151, 1162, -54>>, <<-1, 6774, 8527, 8770, 1430, -98>>>>,
      <<<<1, 0, 0, 0, 1352, -52>>, <<-1, 6144, 1446, 2444, 1138, -54>>, <<-1, 5124, 9117, 15302, 2027, -98>>>>,
      <<<<1, 0, 0, 0, 1344, -52>>, <<-1, 10240, 11950, 13770, 1113, -54>>, <<1, 10480, 3594, 15459, 1991, -98>>>>,
      <<<<1, 0, 0, 0, 1336, -52>>, <<-1, 2048, 9913, 6335, 1089, -54>>, <<-1, 6758, 13333, 3151, 1450, -97>>>>,
      <<<<1, 0, 0, 0, 1328, -52>>, <<-1, 4096, 2510, 12878, 1064, -54>>, <<-1, 782, 15312, 16103, 1818, -99>>>>,
      <<<<1, 0, 0, 0, 1320, -52>>, <<-1, 4096, 4819, 601, 1040, -54>>, <<-1, 11647, 15312, 11145, 1037, -100>>>>,
      <<<<1, 0, 0, 0, 1320, -52>>, <<-1, 4096, 4819, 601, 1040, -54>>, <<-1, 11647, 15312, 11145, 1037, -100>>>>,
      <<<<1, 0, 0, 0, 1312, -52>>, <<-1, 0, 13689, 4486, 2030, -55>>, <<1, 15495, 11876, 12970, 1877, -99>>>>,
      <<<<1, 0, 0, 0, 1304, -52>>, <<-1, 8192, 12145, 2780, 1980, -55>>, <<1, 12068, 12826, 11129, 1737, -97>>>>,
      <<<<1, 0, 0, 0, 1296, -52>>, <<-1, 12288, 14507, 12406, 1929, -55>>, <<-1, 16144, 4351, 13557, 1483, -98>>>>,
      <<<<1, 0, 0, 0, 1288, -52>>, <<-1, 0, 11583, 534, 1879, -55>>, <<1, 10267, 12073, 10523, 1134, -97>>>>,
      <<<<1, 0, 0, 0, 1280, -52>>, <<-1, 8192, 7786, 16252, 1827, -55>>, <<1, 1076, 8830, 5366, 1502, -97>>>>,
      <<<<1, 0, 0, 0, 1280, -52>>, <<-1, 8192, 7786, 16252, 1827, -55>>, <<1, 1076, 8830, 5366, 1502, -97>>>>,
      <<<<1, 0, 0, 0, 1272, -52>>, <<-1, 4096, 4278, 10343, 1776, -55>>, <<1, 14223, 1582, 11011, 1619, -98>>>>,
      <<<<1, 0, 0, 0, 1264, -52>>, <<-1, 0, 14851, 15508, 1724, -55>>, <<1, 4198, 16182, 9779, 1683, -104>>>>,
      <<<<1, 0, 0, 0, 1256, -52>>, <<-1, 12288, 16266, 15297, 1672, -55>>, <<-1, 490, 12571, 1613, 1379, -97>>>>,
      <<<<1, 0, 0, 0, 1256, -52>>, <<-1, 12288, 16266, 15297, 1672, -55>>, <<-1, 490, 12571, 1613, 1379, -97>>>>,
      <<<<1, 0, 0, 0, 1248, -52>>, <<-1, 4096, 13265, 9641, 1620, -55>>, <<-1, 5347, 4871, 7568, 1716, -97>>>>,
      <<<<1, 0, 0, 0, 1240, -52>>, <<-1, 4096, 5251, 14854, 1567, -55>>, <<1, 14857, 16239, 7159, 1775, -97>>>>,
      <<<<1, 0, 0, 0, 1232, -52>>, <<-1, 8192, 2115, 14480, 1514, -55>>, <<1, 2648, 2381, 14599, 1782, -97>>>>,
      <<<<1, 0, 0, 0, 1232, -52>>, <<-1, 8192, 2115, 14480, 1514, -55>>, <<1, 2648, 2381, 14599, 1782, -97>>>>,
      <<<<1, 0, 0, 0, 1224, -52>>, <<-1, 4096, 7271, 8446, 1461, -55>>, <<-1, 8806, 3787, 1706, 1081, -98>>>>,
      <<<<1, 0, 0, 0, 1216, -52>>, <<-1, 4096, 670, 13063, 1407, -55>>, <<-1, 4153, 15425, 9273, 1959, -98>>>>,
      <<<<1, 0, 0, 0, 1216, -52>>, <<-1, 4096, 670, 13063, 1407, -55>>, <<-1, 4153, 15425, 9273, 1959, -98>>>>,
      <<<<1, 0, 0, 0, 1208, -52>>, <<-1, 12288, 3718, 11870, 1353, -55>>, <<-1, 7055, 29, 10425, 1079, -97>>>>,
      <<<<1, 0, 0, 0, 1200, -52>>, <<-1, 0, 13102, 4790, 1299, -55>>, <<1, 14396, 1237, 3094, 1475, -98>>>>,
      <<<<1, 0, 0, 0, 1200, -52>>, <<-1, 0, 13102, 4790, 1299, -55>>, <<1, 14396, 1237, 3094, 1475, -98>>>>,
      <<<<1, 0, 0, 0, 1192, -52>>, <<-1, 4096, 122, 8130, 1244, -55>>, <<1, 5178, 13469, 2148, 1118, -100>>>>,
      <<<<1, 0, 0, 0, 1184, -52>>, <<-1, 12288, 8319, 5423, 1189, -55>>, <<-1, 1032, 7623, 4865, 1315, -97>>>>,
      <<<<1, 0, 0, 0, 1176, -52>>, <<-1, 8192, 5309, 12973, 1133, -55>>, <<-1, 9110, 8262, 2625, 1952, -97>>>>,
      <<<<1, 0, 0, 0, 1176, -52>>, <<-1, 8192, 5309, 12973, 1133, -55>>, <<-1, 9110, 8262, 2625, 1952, -97>>>>,
      <<<<1, 0, 0, 0, 1168, -52>>, <<-1, 4096, 13122, 14311, 1077, -55>>, <<1, 7156, 9121, 6504, 1690, -99>>>>,
      <<<<1, 0, 0, 0, 1168, -52>>, <<-1, 4096, 13122, 14311, 1077, -55>>, <<1, 7156, 9121, 6504, 1690, -99>>>>,
      <<<<1, 0, 0, 0, 1160, -52>>, <<-1, 8192, 1903, 2323, 2043, -56>>, <<-1, 13298, 12940, 5445, 1373, -97>>>>,
      <<<<1, 0, 0, 0, 1152, -52>>, <<-1, 0, 14508, 12406, 1929, -56>>, <<1, 60, 11200, 706, 1677, -97>>>>,
      <<<<1, 0, 0, 0, 1152, -52>>, <<-1, 0, 14508, 12406, 1929, -56>>, <<1, 60, 11200, 706, 1677, -97>>>>,
      <<<<1, 0, 0, 0, 1144, -52>>, <<-1, 0, 15727, 9544, 1815, -56>>, <<-1, 15878, 8574, 1397, 1859, -98>>>>,
      <<<<1, 0, 0, 0, 1136, -52>>, <<-1, 8192, 10539, 9939, 1700, -56>>, <<1, 10952, 8558, 4958, 1358, -97>>>>,
      <<<<1, 0, 0, 0, 1136, -52>>, <<-1, 8192, 10539, 9939, 1700, -56>>, <<1, 10952, 8558, 4958, 1358, -97>>>>,
      <<<<1, 0, 0, 0, 1128, -52>>, <<-1, 8192, 6342, 13405, 1584, -56>>, <<1, 5736, 13501, 660, 1247, -98>>>>,
      <<<<1, 0, 0, 0, 1128, -52>>, <<-1, 8192, 6342, 13405, 1584, -56>>, <<1, 5736, 13501, 660, 1247, -98>>>>,
      <<<<1, 0, 0, 0, 1120, -52>>, <<-1, 8192, 11157, 3368, 1468, -56>>, <<-1, 13274, 9421, 13180, 1445, -97>>>>,
      <<<<1, 0, 0, 0, 1112, -52>>, <<-1, 8192, 15384, 12403, 1350, -56>>, <<1, 7767, 1817, 9654, 1984, -98>>>>,
      <<<<1, 0, 0, 0, 1112, -52>>, <<-1, 8192, 15384, 12403, 1350, -56>>, <<1, 7767, 1817, 9654, 1984, -98>>>>,
      <<<<1, 0, 0, 0, 1104, -52>>, <<-1, 8192, 6255, 7545, 1232, -56>>, <<1, 5087, 13284, 11692, 1815, -97>>>>,
      <<<<1, 0, 0, 0, 1104, -52>>, <<-1, 8192, 6255, 7545, 1232, -56>>, <<1, 5087, 13284, 11692, 1815, -97>>>>,
      <<<<1, 0, 0, 0, 1096, -52>>, <<-1, 0, 14990, 4974, 1113, -56>>, <<1, 8969, 6718, 1511, 1311, -98>>>>,
      <<<<1, 0, 0, 0, 1088, -52>>, <<-1, 0, 70, 8972, 1986, -57>>, <<1, 3729, 3290, 6632, 1878, -97>>>>,
      <<<<1, 0, 0, 0, 1088, -52>>, <<-1, 0, 70, 8972, 1986, -57>>, <<1, 3729, 3290, 6632, 1878, -97>>>>,
      <<<<1, 0, 0, 0, 1080, -52>>, <<-1, 0, 1126, 11735, 1744, -57>>, <<1, 12364, 5977, 10158, 1824, -98>>>>,
      <<<<1, 0, 0, 0, 1080, -52>>, <<-1, 0, 1126, 11735, 1744, -57>>, <<1, 12364, 5977, 10158, 1824, -98>>>>,
      <<<<1, 0, 0, 0, 1072, -52>>, <<-1, 0, 6347, 1423, 1501, -57>>, <<-1, 8686, 5066, 1123, 1855, -97>>>>,
      <<<<1, 0, 0, 0, 1072, -52>>, <<-1, 0, 6347, 1423, 1501, -57>>, <<-1, 8686, 5066, 1123, 1855, -97>>>>,
      <<<<1, 0, 0, 0, 1064, -52>>, <<-1, 0, 10235, 10363, 1255, -57>>, <<1, 16042, 5275, 11135, 1344, -100>>>>,
      <<<<1, 0, 0, 0, 1064, -52>>, <<-1, 0, 10235, 10363, 1255, -57>>, <<1, 16042, 5275, 11135, 1344, -100>>>>,
      <<<<1, 0, 0, 0, 1056, -52>>, <<-1, 0, 14816, 10672, 2016, -58>>, <<-1, 2532, 12792, 615, 1632, -97>>>>,
      <<<<1, 0, 0, 0, 1056, -52>>, <<-1, 0, 14816, 10672, 2016, -58>>, <<-1, 2532, 12792, 615, 1632, -97>>>>,
      <<<<1, 0, 0, 0, 1048, -52>>, <<-1, 0, 8022, 4528, 1518, -58>>, <<-1, 9785, 4074, 5449, 1571, -97>>>>,
      <<<<1, 0, 0, 0, 1040, -52>>, <<-1, 0, 1008, 2699, 2032, -59>>, <<-1, 9884, 6990, 10191, 1991, -102>>>>,
      <<<<1, 0, 0, 0, 1040, -52>>, <<-1, 0, 1008, 2699, 2032, -59>>, <<-1, 9884, 6990, 10191, 1991, -102>>>>,
      <<<<1, 0, 0, 0, 1032, -52>>, <<-1, 0, 11328, 678, 2040, -60>>, <<-1, 228, 14185, 9200, 1656, -98>>>>,
      <<<<1, 0, 0, 0, 1032, -52>>, <<-1, 0, 11328, 678, 2040, -60>>, <<-1, 228, 14185, 9200, 1656, -98>>>>,
      <<<<1, 0, 0, 0, 1024, -52>>, <<1, 0, 0, 0, 0, -1074>>, <<1, 0, 0, 0, 0, -1074>>>>,
      <<<<1, 0, 0, 0, 1024, -52>>, <<1, 0, 0, 0, 0, -1074>>, <<1, 0, 0, 0, 0, -1074>>>>,
      <<<<1, 0, 0, 0, 2032, -53>>, <<1, 0, 5668, 343, 1028, -59>>, <<-1, 11240, 9844, 14009, 1073, -98>>>>,
      <<<<1, 0, 0, 0, 2016, -53>>, <<1, 0, 8782, 1381, 1032, -58>>, <<-1, 14290, 7051, 1456, 1271, -97>>>>,
      <<<<1, 0, 0, 0, 2000, -53>>, <<1, 0, 8996, 4690, 1554, -58>>, <<-1, 3124, 2408, 2979, 1704, -97>>>>,
      <<<<1, 0, 0, 0, 1984, -53>>, <<1, 0, 10141, 5592, 1040, -57>>, <<1, 5971, 13255, 7173, 1092, -99>>>>,
      <<<<1, 0, 0, 0, 1968, -53>>, <<1, 0, 4280, 10989, 1305, -57>>, <<-1, 15656, 5879, 10039, 1797, -97>>>>,
      <<<<1, 0, 0, 0, 1952, -53>>, <<1, 0, 4735, 2721, 1573, -57>>, <<-1, 9853, 360, 6493, 1630, -98>>>>,
      <<<<1, 0, 0, 0, 1936, -53>>, <<1, 0, 14199, 14140, 1842, -57>>, <<-1, 10247, 8032, 3876, 1690, -98>>>>,
      <<<<1, 0, 0, 0, 1928, -53>>, <<1, 0, 27, 8988, 1978, -57>>, <<-1, 15227, 16164, 5092, 1924, -99>>>>,
      <<<<1, 0, 0, 0, 1912, -53>>, <<1, 8192, 1305, 13245, 1125, -56>>, <<-1, 7835, 6198, 9685, 1356, -97>>>>,
      <<<<1, 0, 0, 0, 1896, -53>>, <<1, 8192, 8007, 8026, 1263, -56>>, <<1, 3799, 5997, 1514, 1842, -97>>>>,
      <<<<1, 0, 0, 0, 1880, -53>>, <<1, 8192, 13918, 5540, 1402, -56>>, <<-1, 7454, 12660, 4195, 1818, -97>>>>,
      <<<<1, 0, 0, 0, 1872, -53>>, <<1, 0, 11179, 3376, 1472, -56>>, <<1, 11570, 9847, 10458, 1799, -101>>>>,
      <<<<1, 0, 0, 0, 1856, -53>>, <<1, 0, 13669, 13797, 1612, -56>>, <<1, 2010, 10997, 5571, 1220, -97>>>>,
      <<<<1, 0, 0, 0, 1840, -53>>, <<1, 8192, 14005, 11400, 1754, -56>>, <<-1, 10469, 12253, 2050, 1252, -98>>>>,
      <<<<1, 0, 0, 0, 1832, -53>>, <<1, 0, 1777, 1408, 1826, -56>>, <<1, 11475, 6506, 11548, 1425, -97>>>>,
      <<<<1, 0, 0, 0, 1816, -53>>, <<1, 8192, 3112, 13208, 1969, -56>>, <<-1, 1504, 16281, 1674, 1904, -97>>>>,
      <<<<1, 0, 0, 0, 1808, -53>>, <<1, 8192, 10095, 2323, 2042, -56>>, <<-1, 2813, 16004, 3428, 1357, -97>>>>,
      <<<<1, 0, 0, 0, 1792, -53>>, <<1, 8192, 2207, 14568, 1093, -55>>, <<1, 2034, 14516, 14220, 1147, -97>>>>,
      <<<<1, 0, 0, 0, 1784, -53>>, <<1, 12288, 14479, 8887, 1130, -55>>, <<1, 6452, 4322, 14564, 1833, -97>>>>,
      <<<<1, 0, 0, 0, 1768, -53>>, <<1, 0, 12826, 5648, 1204, -55>>, <<1, 13473, 11782, 5836, 1255, -99>>>>,
      <<<<1, 0, 0, 0, 1760, -53>>, <<1, 4096, 86, 8139, 1241, -55>>, <<1, 12937, 3373, 14978, 1419, -103>>>>,
      <<<<1, 0, 0, 0, 1744, -53>>, <<1, 12288, 3278, 5080, 1316, -55>>, <<1, 13944, 5110, 14229, 1376, -97>>>>,
      <<<<1, 0, 0, 0, 1736, -53>>, <<1, 12288, 4742, 15966, 1353, -55>>, <<1, 15815, 5541, 16014, 1420, -97>>>>,
      <<<<1, 0, 0, 0, 1720, -53>>, <<1, 4096, 14896, 13547, 1429, -55>>, <<1, 11896, 12528, 14514, 1651, -98>>>>,
      <<<<1, 0, 0, 0, 1712, -53>>, <<1, 12288, 11733, 296, 1468, -55>>, <<-1, 8673, 5744, 6366, 1348, -97>>>>,
      <<<<1, 0, 0, 0, 1704, -53>>, <<1, 4096, 5393, 6360, 1506, -55>>, <<-1, 773, 581, 8455, 1817, -98>>>>,
      <<<<1, 0, 0, 0, 1688, -53>>, <<1, 0, 11492, 11006, 1583, -55>>, <<-1, 11473, 11172, 5450, 1487, -99>>>>,
      <<<<1, 0, 0, 0, 1680, -53>>, <<1, 0, 13276, 9645, 1622, -55>>, <<1, 16239, 8835, 8837, 1532, -99>>>>,
      <<<<1, 0, 0, 0, 1664, -53>>, <<1, 8192, 12843, 16083, 1700, -55>>, <<-1, 8553, 344, 9269, 1564, -97>>>>,
      <<<<1, 0, 0, 0, 1656, -53>>, <<1, 4096, 7535, 7557, 1740, -55>>, <<-1, 8618, 15027, 6356, 1805, -99>>>>,
      <<<<1, 0, 0, 0, 1648, -53>>, <<1, 8192, 8431, 2163, 1780, -55>>, <<-1, 4790, 9552, 15429, 1874, -97>>>>,
      <<<<1, 0, 0, 0, 1640, -53>>, <<1, 4096, 7104, 16316, 1819, -55>>, <<-1, 11218, 5720, 1836, 1147, -100>>>>,
      <<<<1, 0, 0, 0, 1624, -53>>, <<1, 4096, 850, 5083, 1900, -55>>, <<-1, 12341, 7254, 12975, 1727, -97>>>>,
      <<<<1, 0, 0, 0, 1616, -53>>, <<1, 4096, 16284, 12527, 1940, -55>>, <<1, 13360, 263, 8822, 1156, -103>>>>,
      <<<<1, 0, 0, 0, 1608, -53>>, <<1, 0, 4980, 6878, 1981, -55>>, <<-1, 3601, 5870, 4438, 1672, -103>>>>,
      <<<<1, 0, 0, 0, 1600, -53>>, <<1, 12288, 13006, 4550, 2022, -55>>, <<1, 7984, 10291, 16076, 1778, -98>>>>,
      <<<<1, 0, 0, 0, 1584, -53>>, <<1, 6144, 309, 4998, 1052, -54>>, <<1, 3729, 7093, 3505, 1575, -100>>>>,
      <<<<1, 0, 0, 0, 1576, -53>>, <<1, 8192, 7557, 726, 1073, -54>>, <<1, 10985, 6387, 2225, 1478, -97>>>>,
      <<<<1, 0, 0, 0, 1568, -53>>, <<1, 10240, 2207, 14568, 1093, -54>>, <<-1, 12316, 3735, 4326, 1800, -97>>>>,
      <<<<1, 0, 0, 0, 1560, -53>>, <<1, 14336, 11955, 13772, 1114, -54>>, <<1, 5761, 7828, 11487, 1766, -97>>>>,
      <<<<1, 0, 0, 0, 1552, -53>>, <<1, 10240, 3433, 14742, 1135, -54>>, <<1, 15799, 1310, 11989, 1833, -97>>>>,
      <<<<1, 0, 0, 0, 1544, -53>>, <<1, 14336, 13370, 1110, 1157, -54>>, <<1, 15082, 10522, 15851, 1697, -99>>>>,
      <<<<1, 0, 0, 0, 1528, -53>>, <<1, 4096, 13170, 12039, 1199, -54>>, <<1, 1268, 10560, 4004, 1703, -97>>>>,
      <<<<1, 0, 0, 0, 1520, -53>>, <<1, 8192, 1869, 3870, 1221, -54>>, <<-1, 15544, 3204, 10157, 1592, -97>>>>,
      <<<<1, 0, 0, 0, 1512, -53>>, <<1, 4096, 6904, 13943, 1242, -54>>, <<1, 14280, 965, 11483, 1115, -98>>>>,
      <<<<1, 0, 0, 0, 1504, -53>>, <<1, 12288, 7372, 9511, 1264, -54>>, <<1, 15708, 6170, 13643, 1550, -98>>>>,
      <<<<1, 0, 0, 0, 1496, -53>>, <<1, 10240, 3927, 6978, 1286, -54>>, <<1, 8349, 12867, 878, 1593, -99>>>>,
      <<<<1, 0, 0, 0, 1488, -53>>, <<1, 2048, 2503, 6364, 1308, -54>>, <<-1, 5749, 9631, 15584, 1993, -97>>>>,
      <<<<1, 0, 0, 0, 1480, -53>>, <<1, 12288, 14428, 7689, 1330, -54>>, <<-1, 6308, 11307, 2193, 1928, -97>>>>,
      <<<<1, 0, 0, 0, 1472, -53>>, <<1, 8192, 7394, 10976, 1352, -54>>, <<1, 1881, 1427, 9992, 1967, -97>>>>,
      <<<<1, 0, 0, 0, 1464, -53>>, <<1, 4096, 3875, 16245, 1374, -54>>, <<1, 239, 14709, 7902, 2027, -98>>>>,
      <<<<1, 0, 0, 0, 1456, -53>>, <<1, 8192, 15717, 7133, 1397, -54>>, <<-1, 9692, 8849, 12960, 1666, -99>>>>>>

\* __exp_data.tab: for each j in 0 .. 127 its <<tail, scale>>, the float
\* 2^(j / 128) as scale and what it misses of the exact power as tail
ExpTab ==
    <<<<<<1, 0, 0, 0, 0, -1074>>, <<1, 0, 0, 0, 1024, -52>>>>,
      <<<<1, 16238, 10786, 13553, 1742, -106>>, <<1, 13109, 10220, 9178, 1029, -52>>>>,
      <<<<-1, 7261, 13155, 313, 1112, -108>>, <<1, 97, 14814, 2467, 1035, -52>>>>,
      <<<<-1, 9937, 541, 10145, 1047, -106>>, <<1, 16261, 8633, 12638, 1040, -52>>>>,
      <<<<1, 13843, 5535, 9507, 1844, -107>>, <<1, 1396, 3158, 6925, 1046, -52>>>>,
      <<<<-1, 3834, 4070, 10242, 1779, -107>>, <<1, 14046, 10103, 1714, 1052, -52>>>>,
      <<<<1, 2145, 1947, 13542, 1085, -109>>, <<1, 7112, 8662, 13393, 1057, -52>>>>,
      <<<<1, 5017, 11471, 15941, 1064, -106>>, <<1, 13187, 11035, 9196, 1063, -52>>>>,
      <<<<1, 15213, 13837, 10853, 1510, -106>>, <<1, 2319, 13286, 5510, 1069, -52>>>>,
      <<<<1, 12284, 3063, 4521, 1965, -107>>, <<1, 2039, 11721, 2338, 1075, -52>>>>,
      <<<<1, 7377, 190, 9175, 1967, -112>>, <<1, 4514, 2895, 16067, 1080, -52>>>>,
      <<<<-1, 11787, 9793, 13128, 1664, -109>>, <<1, 4891, 16379, 13930, 1086, -52>>>>,
      <<<<-1, 15630, 10430, 9506, 1365, -106>>, <<1, 6993, 73, 12317, 1092, -52>>>>,
      <<<<-1, 10837, 12603, 3832, 1056, -110>>, <<1, 12748, 432, 11228, 1098, -52>>>>,
      <<<<-1, 13334, 10071, 4667, 1138, -106>>, <<1, 11744, 15012, 10666, 1104, -52>>>>,
      <<<<1, 5551, 9585, 15934, 1076, -107>>, <<1, 3665, 8854, 10636, 1110, -52>>>>,
      <<<<-1, 4936, 10902, 12638, 1030, -107>>, <<1, 4475, 12789, 11139, 1116, -52>>>>,
      <<<<-1, 12861, 6008, 16133, 1991, -107>>, <<1, 3562, 8754, 12179, 1122, -52>>>>,
      <<<<1, 5055, 15437, 6339, 1762, -107>>, <<1, 2933, 11711, 13758, 1128, -52>>>>,
      <<<<-1, 11046, 6215, 6599, 1462, -106>>, <<1, 7380, 4113, 15880, 1134, -52>>>>,
      <<<<1, 12128, 14568, 3955, 1723, -106>>, <<1, 14762, 1442, 2163, 1141, -52>>>>,
      <<<<-1, 14493, 11800, 14380, 2041, -107>>, <<1, 6429, 3059, 5378, 1147, -52>>>>,
      <<<<1, 909, 4763, 13332, 1691, -107>>, <<1, 3286, 8586, 9144, 1153, -52>>>>,
      <<<<1, 1149, 912, 8283, 1054, -107>>, <<1, 7318, 1527, 13465, 1159, -52>>>>,
      <<<<1, 10388, 3746, 12254, 1443, -106>>, <<1, 8760, 14805, 1958, 1166, -52>>>>,
      <<<<1, 2173, 2513, 8591, 1495, -107>>, <<1, 9791, 16074, 7396, 1172, -52>>>>,
      <<<<1, 10226, 8319, 12985, 1041, -107>>, <<1, 15581, 6025, 13398, 1178, -52>>>>,
      <<<<-1, 2142, 15812, 1971, 1454, -106>>, <<1, 9089, 2005, 3582, 1185, -52>>>>,
      <<<<1, 11057, 13350, 15894, 1213, -107>>, <<1, 7905, 5247, 10719, 1191, -52>>>>,
      <<<<-1, 16378, 10686, 6577, 1864, -112>>, <<1, 6544, 875, 2045, 1198, -52>>>>,
      <<<<1, 2740, 2096, 14375, 1741, -107>>, <<1, 779, 7056, 10330, 1204, -52>>>>,
      <<<<1, 2959, 10043, 2344, 1925, -109>>, <<1, 12118, 9464, 2810, 1211, -52>>>>,
      <<<<1, 11190, 14018, 5972, 1235, -107>>, <<1, 14101, 10438, 12256, 1217, -52>>>>,
      <<<<1, 13388, 2737, 8222, 1424, -107>>, <<1, 6193, 12595, 5903, 1224, -52>>>>,
      <<<<1, 14410, 14159, 5013, 2039, -107>>, <<1, 5887, 2448, 139, 1231, -52>>>>,
      <<<<-1, 6916, 11833, 14339, 1448, -107>>, <<1, 8177, 15946, 11349, 1237, -52>>>>,
      <<<<-1, 4200, 12589, 11996, 1170, -106>>, <<1, 10699, 7402, 6771, 1244, -52>>>>,
      <<<<-1, 11662, 11588, 16257, 1601, -106>>, <<1, 6246, 13335, 2790, 1251, -52>>>>,
      <<<<-1, 14034, 14928, 7811, 1140, -108>>, <<1, 8183, 5014, 15795, 1257, -52>>>>,
      <<<<-1, 6933, 3896, 4507, 1606, -106>>, <<1, 10469, 3150, 13020, 1264, -52>>>>,
      <<<<1, 3181, 7337, 13450, 1383, -107>>, <<1, 13346, 12360, 10852, 1271, -52>>>>,
      <<<<-1, 10634, 10401, 9735, 1220, -106>>, <<1, 28, 4786, 9296, 1278, -52>>>>,
      <<<<-1, 2395, 8286, 14580, 1577, -110>>, <<1, 11818, 2012, 8354, 1285, -52>>>>,
      <<<<-1, 6683, 7462, 2486, 1803, -108>>, <<1, 10391, 9538, 8029, 1292, -52>>>>,
      <<<<1, 11281, 778, 16086, 1240, -111>>, <<1, 2349, 390, 8326, 1299, -52>>>>,
      <<<<1, 9455, 11289, 8339, 1433, -106>>, <<1, 87, 13428, 9246, 1306, -52>>>>,
      <<<<1, 889, 10884, 3613, 1971, -109>>, <<1, 15568, 5892, 10795, 1313, -52>>>>,
      <<<<1, 4656, 15420, 14563, 1279, -106>>, <<1, 5086, 863, 12975, 1320, -52>>>>,
      <<<<1, 12208, 11754, 3307, 1444, -108>>, <<1, 10791, 5336, 15789, 1327, -52>>>>,
      <<<<1, 8311, 11603, 7134, 1223, -106>>, <<1, 7437, 10231, 2857, 1335, -52>>>>,
      <<<<-1, 9102, 454, 832, 2021, -107>>, <<1, 11431, 6772, 6951, 1342, -52>>>>,
      <<<<-1, 9033, 12878, 11469, 1527, -107>>, <<1, 9794, 2877, 11690, 1349, -52>>>>,
      <<<<-1, 14431, 13372, 11371, 1591, -108>>, <<1, 3970, 6773, 693, 1357, -52>>>>,
      <<<<-1, 7414, 12781, 9326, 1412, -107>>, <<1, 4623, 10614, 6732, 1364, -52>>>>,
      <<<<1, 6030, 9207, 4177, 1229, -106>>, <<1, 10202, 6868, 13427, 1371, -52>>>>,
      <<<<1, 6917, 15914, 2930, 1766, -108>>, <<1, 2045, 4703, 4397, 1379, -52>>>>,
      <<<<1, 5129, 2161, 15902, 1048, -106>>, <<1, 5161, 13601, 12413, 1386, -52>>>>,
      <<<<1, 1770, 103, 14421, 1329, -112>>, <<1, 1719, 10597, 4712, 1394, -52>>>>,
      <<<<1, 53, 11667, 11874, 1292, -106>>, <<1, 8520, 5812, 14065, 1401, -52>>>>,
      <<<<-1, 13983, 1637, 1190, 1849, -107>>, <<1, 7177, 9691, 7707, 1409, -52>>>>,
      <<<<-1, 3496, 12221, 15443, 1804, -107>>, <<1, 5509, 233, 2027, 1417, -52>>>>,
      <<<<-1, 10670, 9391, 14216, 1300, -107>>, <<1, 800, 4915, 13411, 1424, -52>>>>,
      <<<<-1, 6232, 8537, 11735, 1267, -106>>, <<1, 8741, 2388, 9096, 1432, -52>>>>,
      <<<<1, 6500, 504, 2728, 1476, -110>>, <<1, 10611, 4402, 5469, 1440, -52>>>>,
      <<<<-1, 8744, 15736, 16123, 1260, -106>>, <<1, 15309, 6652, 2534, 1448, -52>>>>,
      <<<<-1, 14722, 7378, 10968, 1668, -109>>, <<1, 6847, 5167, 295, 1456, -52>>>>,
      <<<<-1, 10734, 8630, 16123, 1241, -109>>, <<1, 6703, 12692, 15139, 1463, -52>>>>,
      <<<<-1, 2129, 4994, 981, 1079, -107>>, <<1, 5252, 9542, 14303, 1471, -52>>>>,
      <<<<-1, 16079, 14696, 13895, 1543, -108>>, <<1, 8052, 9137, 14174, 1479, -52>>>>,
      <<<<-1, 15792, 557, 9388, 1467, -107>>, <<1, 372, 8854, 14756, 1487, -52>>>>,
      <<<<-1, 9866, 14679, 4897, 1414, -107>>, <<1, 10185, 6409, 16053, 1495, -52>>>>,
      <<<<1, 5331, 14375, 3253, 1063, -106>>, <<1, 7487, 16249, 1684, 1504, -52>>>>,
      <<<<-1, 9501, 9526, 11723, 1740, -108>>, <<1, 391, 4012, 4423, 1512, -52>>>>,
      <<<<1, 107, 4511, 4053, 1339, -106>>, <<1, 306, 1219, 7888, 1520, -52>>>>,
      <<<<1, 11349, 12121, 15898, 1402, -109>>, <<1, 3682, 6973, 12083, 1528, -52>>>>,
      <<<<-1, 3906, 16079, 7250, 1576, -107>>, <<1, 6674, 4344, 629, 1537, -52>>>>,
      <<<<-1, 14132, 1260, 7023, 1242, -106>>, <<1, 3603, 9523, 6297, 1545, -52>>>>,
      <<<<-1, 16158, 10343, 10307, 1047, -107>>, <<1, 1965, 6287, 12708, 1553, -52>>>>,
      <<<<-1, 5998, 8649, 1293, 1333, -106>>, <<1, 4845, 11538, 3481, 1562, -52>>>>,
      <<<<1, 2560, 11322, 5749, 1067, -106>>, <<1, 9881, 9769, 11389, 1570, -52>>>>,
      <<<<1, 10932, 1987, 13052, 1901, -107>>, <<1, 8411, 2218, 3668, 1579, -52>>>>,
      <<<<-1, 10239, 13079, 9737, 1389, -109>>, <<1, 1164, 6869, 13089, 1587, -52>>>>,
      <<<<1, 8004, 10189, 10293, 1789, -108>>, <<1, 14134, 9301, 6889, 1596, -52>>>>,
      <<<<-1, 15747, 7288, 4602, 1218, -106>>, <<1, 16326, 11847, 1456, 1605, -52>>>>,
      <<<<-1, 7721, 11696, 7048, 1898, -110>>, <<1, 1509, 823, 13179, 1613, -52>>>>,
      <<<<-1, 14681, 12866, 16279, 1800, -109>>, <<1, 4623, 12065, 9292, 1622, -52>>>>,
      <<<<-1, 14762, 3027, 13362, 1168, -106>>, <<1, 3664, 16249, 6185, 1631, -52>>>>,
      <<<<-1, 3659, 7578, 9933, 1394, -107>>, <<1, 1978, 808, 3863, 1640, -52>>>>,
      <<<<1, 3623, 11847, 16322, 1131, -108>>, <<1, 12432, 2703, 2328, 1649, -52>>>>,
      <<<<1, 13243, 1065, 9054, 1908, -109>>, <<1, 8995, 10124, 1585, 1658, -52>>>>,
      <<<<-1, 8803, 2440, 4162, 1521, -107>>, <<1, 9573, 11639, 1639, 1667, -52>>>>,
      <<<<1, 12757, 3976, 2158, 1735, -107>>, <<1, 11571, 12584, 2494, 1676, -52>>>>,
      <<<<-1, 15125, 3826, 15645, 1134, -106>>, <<1, 9565, 2296, 4155, 1685, -52>>>>,
      <<<<1, 12754, 13240, 793, 1075, -106>>, <<1, 13144, 3266, 6625, 1694, -52>>>>,
      <<<<1, 6835, 14797, 6214, 1306, -107>>, <<1, 15807, 5607, 9909, 1703, -52>>>>,
      <<<<-1, 7604, 7738, 15577, 1207, -107>>, <<1, 13178, 16207, 14011, 1712, -52>>>>,
      <<<<1, 13191, 2860, 10105, 1798, -107>>, <<1, 5037, 9579, 2553, 1722, -52>>>>,
      <<<<-1, 6650, 11079, 14580, 1054, -106>>, <<1, 13926, 9782, 8306, 1731, -52>>>>,
      <<<<-1, 11962, 7026, 15765, 1392, -110>>, <<1, 5627, 8508, 14891, 1740, -52>>>>,
      <<<<-1, 13888, 13979, 227, 1065, -106>>, <<1, 6458, 14229, 5928, 1750, -52>>>>,
      <<<<-1, 4916, 8886, 12099, 1589, -109>>, <<1, 7751, 3053, 14191, 1759, -52>>>>,
      <<<<-1, 2613, 11618, 11814, 1147, -106>>, <<1, 1610, 644, 6915, 1769, -52>>>>,
      <<<<1, 7629, 10623, 15728, 1343, -108>>, <<1, 466, 303, 489, 1779, -52>>>>,
      <<<<-1, 6316, 10826, 8127, 1135, -106>>, <<1, 7689, 12124, 11301, 1788, -52>>>>,
      <<<<1, 3251, 700, 10979, 1243, -108>>, <<1, 4764, 13845, 6589, 1798, -52>>>>,
      <<<<1, 15764, 12927, 13093, 1976, -107>>, <<1, 4218, 16383, 2741, 1808, -52>>>>,
      <<<<1, 6572, 1061, 2301, 1336, -107>>, <<1, 4427, 14687, 16146, 1817, -52>>>>,
      <<<<1, 6759, 8504, 6899, 1267, -109>>, <<1, 10165, 4123, 14041, 1827, -52>>>>,
      <<<<1, 6504, 12872, 12998, 1498, -109>>, <<1, 4201, 13246, 12813, 1837, -52>>>>,
      <<<<-1, 13778, 3890, 8584, 1058, -107>>, <<1, 1018, 5495, 12469, 1847, -52>>>>,
      <<<<-1, 14959, 16383, 5587, 2027, -107>>, <<1, 2428, 10270, 13012, 1857, -52>>>>,
      <<<<-1, 10569, 8662, 6883, 1027, -106>>, <<1, 2546, 8246, 14448, 1867, -52>>>>,
      <<<<1, 1959, 6388, 14426, 1320, -108>>, <<1, 9351, 13294, 397, 1878, -52>>>>,
      <<<<-1, 8719, 256, 6626, 1188, -107>>, <<1, 920, 6950, 3633, 1888, -52>>>>,
      <<<<1, 4780, 5894, 9485, 1942, -107>>, <<1, 12933, 3948, 7776, 1898, -52>>>>,
      <<<<1, 11083, 12293, 9626, 1294, -107>>, <<1, 13408, 3078, 12831, 1908, -52>>>>,
      <<<<-1, 15903, 7888, 4624, 1205, -107>>, <<1, 7007, 3566, 2419, 1919, -52>>>>,
      <<<<-1, 3529, 11548, 11155, 1610, -107>>, <<1, 8489, 5078, 9313, 1929, -52>>>>,
      <<<<1, 2259, 234, 8262, 1325, -108>>, <<1, 16374, 7724, 750, 1940, -52>>>>,
      <<<<1, 12913, 1653, 7877, 1265, -107>>, <<1, 3203, 12061, 9503, 1950, -52>>>>,
      <<<<-1, 4592, 16206, 12584, 2045, -107>>, <<1, 4314, 2706, 2810, 1961, -52>>>>,
      <<<<-1, 13437, 2189, 10638, 1899, -107>>, <<1, 10225, 13881, 13442, 1971, -52>>>>,
      <<<<1, 8200, 1704, 15300, 1968, -107>>, <<1, 6695, 14725, 8638, 1982, -52>>>>,
      <<<<1, 11058, 3751, 14668, 1290, -107>>, <<1, 14999, 7598, 4787, 1993, -52>>>>,
      <<<<1, 1518, 1862, 2707, 1689, -107>>, <<1, 1344, 11705, 1893, 2004, -52>>>>,
      <<<<-1, 9197, 4335, 15278, 1933, -107>>, <<1, 15892, 13938, 16346, 2014, -52>>>>,
      <<<<1, 3485, 13895, 5044, 1506, -108>>, <<1, 4312, 1658, 15384, 2025, -52>>>>,
      <<<<1, 3209, 1411, 7188, 1217, -110>>, <<1, 12785, 11837, 15394, 2036, -52>>>>>>

\* the straight-line parts of pow.  pow: none.  log: log_inline, which leaves in loghi +
\* loglo the logarithm of z * 2^kd, and the product of it by y in ehi + elo.
\* small: 1 + w.  reduce: the start of exp_inline, ehi + elo = kd * log(2) /
\* 128 + r.  exp: the end of exp_inline, scale + scale * (exp(r) - 1).  up,
\* down, denormal, final: the same in specialcase, for a scale 2^1009 times
\* lower (up) or 2^1022 times higher (down) than the power's
PowProg ==
    [pow |-> << >>,
     log |-> <<<<"t1", "fma", "kd", "Ln2hi", "logc">>,
               <<"lo1", "fma", "kd", "Ln2lo", "logctail">>,
               <<"r", "fma", "z", "invc", "m1">>,
               <<"ar", "mul", "r", "A0">>,
               <<"q1", "fma", "r", "A2", "A1">>,
               <<"q2", "fma", "r", "A4", "A3">>,
               <<"t2", "add", "r", "t1">>,
               <<"ar2", "mul", "r", "ar">>,
               <<"d", "sub", "t1", "t2">>,
               <<"ar3", "mul", "r", "ar2">>,
               <<"nar2", "neg", "ar2">>,
               <<"lo3", "fma", "ar", "r", "nar2">>,
               <<"lo2", "add", "d", "r">>,
               <<"q3", "fma", "r", "A6", "A5">>,
               <<"hi", "add", "t2", "ar2">>,
               <<"e", "sub", "t2", "hi">>,
               <<"q", "fma", "q3", "ar2", "q2">>,
               <<"lo4", "add", "e", "ar2">>,
               <<"p", "fma", "ar2", "q", "q1">>,
               <<"lo", "add", "lo1", "lo2">>,
               <<"lo", "add", "lo", "lo3">>,
               <<"lo", "add", "lo", "lo4">>,
               <<"lo", "fma", "ar3", "p", "lo">>,
               <<"loghi", "add", "hi", "lo">>,
               <<"e", "sub", "hi", "loghi">>,
               <<"loglo", "add", "e", "lo">>,
               <<"ehi", "mul", "y", "loghi">>,
               <<"nehi", "neg", "ehi">>,
               <<"elo", "fma", "loghi", "y", "nehi">>,
               <<"elo", "fma", "y", "loglo", "elo">>>>,
     small |-> <<<<"res", "add", "one", "w">>>>,
     reduce |-> <<<<"kd", "fma", "ehi", "InvLn2N", "Shift">>,
                  <<"kd", "sub", "kd", "Shift">>,
                  <<"r", "fma", "kd", "NegLn2hiN", "ehi">>,
                  <<"r", "fma", "kd", "NegLn2loN", "r">>,
                  <<"r", "add", "elo", "r">>>>,
     exp |-> <<<<"p1", "fma", "r", "C3", "C2">>,
               <<"t", "add", "r", "tail">>,
               <<"r2", "mul", "r", "r">>,
               <<"p2", "fma", "r", "C5", "C4">>,
               <<"tmp", "fma", "p1", "r2", "t">>,
               <<"r4", "mul", "r2", "r2">>,
               <<"tmp", "fma", "p2", "r4", "tmp">>,
               <<"res", "fma", "tmp", "scale", "scale">>>>,
     up |-> <<<<"p1", "fma", "r", "C3", "C2">>,
              <<"t", "add", "r", "tail">>,
              <<"r2", "mul", "r", "r">>,
              <<"p2", "fma", "r", "C5", "C4">>,
              <<"tmp", "fma", "p1", "r2", "t">>,
              <<"r4", "mul", "r2", "r2">>,
              <<"tmp", "fma", "p2", "r4", "tmp">>,
              <<"s", "fma", "scale", "tmp", "scale">>,
              <<"res", "mul", "two1009", "s">>>>,
     down |-> <<<<"p1", "fma", "r", "C3", "C2">>,
                <<"t", "add", "r", "tail">>,
                <<"r2", "mul", "r", "r">>,
                <<"p2", "fma", "r", "C5", "C4">>,
                <<"tmp", "fma", "p1", "r2", "t">>,
                <<"r4", "mul", "r2", "r2">>,
                <<"tmp", "fma", "p2", "r4", "tmp">>,
                <<"st", "mul", "tmp", "scale">>,
                <<"yd", "add", "scale", "st">>>>,
     denormal |-> <<<<"lo", "sub", "scale", "yd">>,
                    <<"lo", "add", "lo", "st">>,
                    <<"hi", "add", "yd", "one">>,
                    <<"e", "sub", "one", "hi">>,
                    <<"e", "add", "e", "yd">>,
                    <<"lo", "add", "e", "lo">>,
                    <<"yd", "add", "lo", "hi">>,
                    <<"yd", "sub", "yd", "one">>>>,
     final |-> <<<<"res", "mul", "yd", "twom1022">>>>]

\* one operation on the numbers a, b, c
Alu(oper, a, b, c) ==
    IF oper = "fma" THEN FFma(a, b, c)
    ELSE IF oper = "mul" THEN FMul(a, b)
    ELSE IF oper = "neg" THEN FNeg(a)
    ELSE FAdd(a, IF oper = "sub" THEN FNeg(b) ELSE b)

\* the operand n of the instruction ins, the first one where it has fewer
Arg(ins, n, regs) == regs[ins[IF n <= Len(ins) THEN n ELSE 3]]

\* the registers once the instructions i .. j of prog have run
RECURSIVE Run(_, _, _, _)
Run(prog, i, j, regs) ==
    IF i > j THEN regs
    ELSE IF i = j
    THEN (prog[i][1] :> Alu(prog[i][2], Arg(prog[i], 3, regs), Arg(prog[i], 4, regs),
                            Arg(prog[i], 5, regs))) @@ regs
    ELSE Val({Run(prog, ((i + j) \div 2) + 1, j, half) :
              half \in {Run(prog, i, (i + j) \div 2, regs)}})

\* the registers of log_inline for the argument x > 0: x = z * 2^kd with z in
\* [0x1.69555p-1, 0x1.69555p0), and invc, logc, logctail of the interval of z
\* (tmp = ix - OFF, i = (tmp >> 45) % 128, k = tmp >> 52, iz = ix - (tmp &
\* 0xfff << 52), on the 24 bits of the mantissa below its leading one)
LogArg(x) ==
    Val({Val({Val({[z |-> [s |-> 1, m |-> <<nx[1][1], nx[1][2], nx[1][3], nx[1][4]>>,
                          e |-> IF top >= 6903120 THEN -53 ELSE -52],
                    kd |-> IntF(nx[2] + (IF top >= 6903120 THEN 53 ELSE 52)),
                    invc |-> Entrada(c[1]), logc |-> Entrada(c[2]), logctail |-> Entrada(c[3])] :
                   c \in {PowLogTab[((IF top >= 6903120 THEN top - 6903120
                                      ELSE top + 9874096) \div 131072) + 1]}}) :
              top \in {((nx[1][4] - 1024) * B) + nx[1][3]}}) :
         nx \in {Norm53(x)}})

\* the registers tail and scale of exp_inline for the integer k = 128 * kq + j
\* (sbits = T[j].sbits + (ki << 45)), the scale 2^off times the power's
ExpArg(j, kq, off) ==
    Val({[tail |-> Entrada(c[1]),
          scale |-> [s |-> 1, m |-> Entrada(c[2]).m, e |-> (kq + off) - 52]] :
         c \in {ExpTab[j + 1]}})

\* pow(x, y) of the C library from the part fase on: the part is run and the
\* next one chosen as the code branches.  pow: for |y| < 2^-65 the power is
\* 1 + y or 1 - y, for |y| >= 2^63 it is out of range.  log: exp_inline
\* returns 1 + ehi for |ehi| < 2^-54, overflows or underflows for |ehi| >=
\* 2^10.  reduce: for |ehi| >= 2^9 the end is in specialcase, which rounds
\* once more where the power is subnormal (denormal)
RECURSIVE pow_fase(_, _)
pow_fase(fase, regs) ==
    Val({IF fase = "pow"
         THEN (IF r["y"].e < -117
               THEN pow_fase("small", ("w" :> (IF FGt(r["x"], One) THEN r["y"]
                                               ELSE FNeg(r["y"]))) @@ r)
               ELSE IF r["y"].e > 10
               THEN (IF FGt(r["x"], One) = (r["y"].s = 1) THEN Inf(1) ELSE Zero)
               ELSE pow_fase("log", LogArg(r["x"]) @@ r))
         ELSE IF fase = "log"
         THEN (IF IsZero(r["ehi"]) \/ r["ehi"].e < -106
               THEN pow_fase("small", ("w" :> r["ehi"]) @@ r)
               ELSE IF r["ehi"].e >= -42 THEN (IF r["ehi"].s = -1 THEN Zero ELSE Inf(1))
               ELSE pow_fase("reduce", r))
         ELSE IF fase = "reduce"
         THEN Val({pow_fase(IF r["ehi"].e < -43 THEN "exp" ELSE IF k >= 0 THEN "up" ELSE "down",
                            ExpArg(k % 128, k \div 128,
                                   IF r["ehi"].e < -43 THEN 0
                                   ELSE IF k >= 0 THEN -1009 ELSE 1022) @@ r) :
                   k \in {FToInt(r["kd"])}})
         ELSE IF fase = "down"
         THEN pow_fase(IF FLt(r["yd"], One) THEN "denormal" ELSE "final", r)
         ELSE IF fase = "denormal" THEN pow_fase("final", r)
         ELSE r["res"] :
         r \in {Val({Run(prog, 1, Len(prog), regs) : prog \in {PowProg[fase]}})}})

\* pow(x, y) of the C library for x > 0 other than 1 and y # 0, both finite:
\* an infinity when the power is above the floats, 0.0 when it is below
pow(x, y) == pow_fase("pow", [x |-> x, y |-> y] @@ PowConsts)

\* the arguments that the cases explored raise to a power over and over,
\* <<four limbs and exponent of x, sign, four limbs and exponent of y>>
PowFrecuentes ==
    {<<0, 0, 0, 1120, -47, 1, 0, 0, 0, 1024, -51>>,
     <<0, 0, 0, 1120, -46, 1, 0, 0, 0, 1024, -51>>,
     <<0, 0, 0, 1200, -46, 1, 0, 0, 0, 1024, -51>>,
     <<0, 0, 0, 1248, -46, 1, 0, 0, 0, 1024, -51>>,
     <<0, 0, 0, 1250, -41, 1, 0, 0, 0, 1024, -51>>,
     <<0, 0, 0, 1250, -40, 1, 0, 0, 0, 1024, -51>>,
     <<0, 0, 0, 1280, -49, 1, 0, 0, 0, 1024, -51>>,
     <<0, 0, 0, 1280, -47, 1, 0, 0, 0, 1024, -51>>,
     <<0, 0, 0, 1280, -45, 1, 0, 0, 0, 1024, -51>>,
     <<0, 0, 0, 1520, -46, 1, 0, 0, 0, 1024, -51>>,
     <<0, 0, 0, 1560, -46, 1, 0, 0, 0, 1024, -51>>,
     <<0, 0, 0, 1600, -48, 1, 0, 0, 0, 1024, -51>>,
     <<0, 0, 0, 1600, -47, 1, 0, 0, 0, 1024, -51>>,
     <<0, 0, 0, 1600, -46, 1, 0, 0, 0, 1024, -51>>,
     <<0, 0, 0, 1776, -46, 1, 0, 0, 0, 1024, -51>>,
     <<0, 0, 0, 1792, -46, 1, 0, 0, 0, 1024, -51>>,
     <<0, 0, 0, 1872, -46, 1, 0, 0, 0, 1024, -51>>,
     <<0, 0, 0, 1920, -46, 1, 0, 0, 0, 1024, -51>>,
     <<0, 0, 0, 2000, -46, 1, 0, 0, 0, 1024, -51>>,
     <<0, 0, 0, 2000, -41, 1, 0, 0, 0, 1024, -51>>,
     <<1966, 11141, 8519, 1507, -46, 1, 0, 0, 0, 1024, -51>>,
     <<2348, 3769, 6391, 1687, -55, 1, 0, 0, 0, 1024, -51>>,
     <<2381, 11821, 3002, 2037, -52, 1, 0, 0, 0, 1024, -51>>,
     <<2556, 2156, 790, 1162, -53, 1, 0, 0, 0, 1024, -51>>,
     <<2683, 3770, 8821, 1541, -54, 1, 0, 0, 0, 1024, -51>>,
     <<2964, 9749, 14137, 1066, -53, 1, 0, 0, 0, 1024, -51>>,
     <<3277, 13107, 3276, 1507, -46, 1, 0, 0, 0, 1024, -51>>,
     <<3277, 13107, 3276, 1907, -48, 1, 0, 0, 0, 1024, -51>>,
     <<3277, 13107, 3276, 1907, -47, 1, 0, 0, 0, 1024, -51>>,
     <<3492, 849, 15071, 1433, -53, 1, 0, 0, 0, 1024, -51>>,
     <<4923, 3138, 13634, 1548, -52, 1, 0, 0, 0, 1024, -51>>,
     <<4981, 4194, 9568, 1347, -53, 1, 1383, 8902, 7574, 1170, -51>>,
     <<4981, 4194, 9568, 1347, -53, 1, 2280, 4351, 11585, 1318, -54>>,
     <<4981, 4194, 9568, 1347, -53, 1, 2349, 13933, 13635, 1150, -51>>,
     <<4981, 4194, 9568, 1347, -53, 1, 2350, 13933, 13635, 1150, -51>>,
     <<4981, 4194, 9568, 1347, -53, 1, 2402, 2784, 5259, 1151, -51>>,
     <<4981, 4194, 9568, 1347, -53, 1, 3317, 13565, 8518, 1111, -54>>,
     <<4981, 4194, 9568, 1347, -53, 1, 3997, 3361, 8281, 1150, -51>>,
     <<4981, 4194, 9568, 1347, -53, 1, 3998, 3361, 8281, 1150, -51>>,
     <<4981, 4194, 9568, 1347, -53, 1, 4356, 5378, 410, 1459, -52>>,
     <<4981, 4194, 9568, 1347, -53, 1, 6281, 4875, 9552, 1524, -54>>,
     <<4981, 4194, 9568, 1347, -53, 1, 6635, 9879, 5384, 1171, -51>>,
     <<4981, 4194, 9568, 1347, -53, 1, 8198, 14748, 9044, 1867, -51>>,
     <<4981, 4194, 9568, 1347, -53, 1, 8287, 6838, 9664, 1825, -54>>,
     <<4981, 4194, 9568, 1347, -53, 1, 11152, 4780, 14928, 1296, -55>>,
     <<4981, 4194, 9568, 1347, -53, 1, 11152, 4780, 14928, 1296, -53>>,
     <<4981, 4194, 9568, 1347, -53, 1, 11152, 4780, 14928, 1296, -51>>,
     <<4981, 4194, 9568, 1347, -53, 1, 11153, 4780, 14928, 1296, -55>>,
     <<4981, 4194, 9568, 1347, -53, 1, 11153, 4780, 14928, 1296, -53>>,
     <<4981, 4194, 9568, 1347, -53, 1, 11321, 12078, 10930, 1335, -56>>,
     <<4981, 4194, 9568, 1347, -53, 1, 12153, 8506, 4522, 1390, -57>>,
     <<4981, 4194, 9568, 1347, -53, 1, 13332, 7469, 6941, 2026, -51>>,
     <<4981, 4194, 9568, 1347, -53, 1, 13451, 3876, 5285, 1160, -55>>,
     <<4981, 4194, 9568, 1347, -53, 1, 14595, 13469, 15330, 2007, -54>>,
     <<6187, 10608, 7685, 1249, -53, 1, 0, 0, 0, 1024, -51>>,
     <<6318, 6527, 9463, 1415, -64, 1, 0, 0, 0, 1024, -51>>,
     <<6989, 2815, 3371, 1321, -62, 1, 0, 0, 0, 1024, -51>>,
     <<7708, 2430, 4248, 1548, -52, 1, 0, 0, 0, 1024, -51>>,
     <<8333, 16009, 6459, 1205, -53, 1, 0, 0, 0, 1024, -51>>,
     <<8505, 16379, 3625, 1535, -52, 1, 0, 0, 0, 1024, -51>>,
     <<9096, 8455, 4284, 1367, -53, 1, 0, 0, 0, 1024, -51>>,
     <<9830, 6553, 9830, 1433, -48, 1, 0, 0, 0, 1024, -51>>,
     <<9830, 6553, 9830, 1945, -49, 1, 0, 0, 0, 1024, -51>>,
     <<10617, 1179, 131, 1835, -62, 1, 0, 0, 0, 1024, -51>>,
     <<11259, 7092, 5078, 1222, -52, 1, 0, 0, 0, 1024, -51>>,
     <<11461, 4794, 11402, 1955, -52, 1, 0, 0, 0, 1024, -51>>,
     <<11544, 4368, 8117, 1608, -51, 1, 0, 0, 0, 1024, -51>>,
     <<11608, 2817, 54, 1535, -52, 1, 0, 0, 0, 1024, -51>>,
     <<12991, 5790, 8966, 1535, -52, 1, 0, 0, 0, 1024, -51>>,
     <<13863, 7561, 10082, 1496, -53, 1, 0, 0, 0, 1024, -51>>,
     <<15011, 9456, 12232, 1629, -54, 1, 0, 0, 0, 1024, -51>>,
     <<15011, 9456, 12232, 1629, -53, 1, 0, 0, 0, 1024, -51>>,
     <<15011, 9456, 12232, 1629, -52, 1, 0, 0, 0, 1024, -51>>,
     <<15283, 6785, 8142, 1169, -54, 1, 0, 0, 0, 1024, -51>>}

\* pow of those arguments, computed once
PowMemo ==
    [a \in {<<[s |-> 1, m |-> <<t[1], t[2], t[3], t[4]>>, e |-> t[5]],
              [s |-> t[6], m |-> <<t[7], t[8], t[9], t[10]>>, e |-> t[11]]>> :
            t \in PowFrecuentes} |-> pow(a[1], a[2])]

\* pow(x, y), looked up where it has been computed
PowVisto(x, y) ==
    Val({IF <<x, y>> \in DOMAIN memo THEN memo[<<x, y>>] ELSE pow(x, y) : memo \in {PowMemo}})

\* float_pow of CPython for the base 0.658: 0.658 ** y, raising
\* OverflowError when the power leaves the range of the floats; a power
\* below the range is 0.0
Pow0658(y) ==
    Val({IF x.e > MaxExp + 1 THEN x
         ELSE IF IsZero(x) THEN One
         ELSE IF IsInf(x) THEN (IF x.s = 1 THEN Zero ELSE Inf(1))
         ELSE Val({IF IsInf(r) THEN Raised(3) ELSE r : r \in {PowVisto(D(658, -3), x)}}) :
         x \in {y}})

\* math.pi, 0x1.921fb54442d18p+1
Pi == [s |-> 1, m |-> <<11544, 4368, 8117, 1608>>, e |-> -51]

\* float_pow of CPython for the exponent 2: x ** 2, raising OverflowError
\* when the square of a number leaves the range of the floats
Sq(x) ==
    Val({IF y.e > MaxExp + 1 THEN y
         ELSE IF IsInf(y) THEN Inf(1)
         ELSE IF IsZero(y) THEN Zero
         ELSE IF y.m = One.m /\ y.e = One.e THEN One
         ELSE Val({IF IsInf(r) THEN Raised(3) ELSE r : r \in {PowVisto(FAbs(y), Two)}}) :
         y \in {x}})

\* min(a, b) and max(a, b) of Python: the first argument wins a tie
FMin(a, b) ==
    Val({IF IsRaised(x) THEN x ELSE IF IsRaised(y) \/ FLt(y, x) THEN y ELSE x :
         x \in {a}, y \in {b}})

FMax(a, b) ==
    Val({IF IsRaised(x) THEN x ELSE IF IsRaised(y) \/ FGt(y, x) THEN y ELSE x :
         x \in {a}, y \in {b}})

-----------------------------------------------------------------------------
(* Values returned by the methods: every one is a record with a field tipo. *)
(* None is the absent slot; Exc(n) is the exception n leaving the call.     *)

None == [tipo |-> "None"]

Exc(n) == [tipo |-> "exc", exc |-> n]

IsExc(r) == "exc" \in DOMAIN r

IsNone(r) == r.tipo = "None"

\* the exception that the raised float expression x leaves the call with
Excepcion(x) == Exc(ExcNames[x.e - (MaxExp + 2)])

RECURSIVE PrimeraDesde(_, _)
PrimeraDesde(vs, i) ==
    IF i > Len(vs) THEN Zero
    ELSE IF IsRaised(vs[i]) THEN vs[i]
    ELSE PrimeraDesde(vs, i + 1)

\* the first raised value among vs, the values of a method in the order
\* in which the method evaluates them, or Zero when none is raised
Levantada(vs) == PrimeraDesde(vs, 1)

\* Estado with a ratio of exactly 1.0 failing
EstadoEstricto(x) == IF FLt(x, One) THEN "PASA" ELSE "FALLA"

\* 'PASA' if x <= 1.0 else 'FALLA'
Estado(x) == IF FLe(x, One) THEN "PASA" ELSE "FALLA"

-----------------------------------------------------------------------------
(* ValidadorAISC.clasificar_seccion and _clasificar_elemento                *)

\* _clasificar_elemento with a ratio equal to a limit falling in the upper band
_clasificar_elemento_estricto(lambda_val, lambda_p, lambda_r) ==
    IF FLt(lambda_val, lambda_p) THEN "compacta"
    ELSE IF FLt(lambda_val, lambda_r) THEN "no_compacta"
    ELSE "esbelta"

\* _clasificar_elemento with the classes in the opposite order
_clasificar_elemento_invertido(lambda_val, lambda_p, lambda_r) ==
    IF FLe(lambda_val, lambda_p) THEN "esbelta"
    ELSE IF FLe(lambda_val, lambda_r) THEN "no_compacta"
    ELSE "compacta"

_clasificar_elemento(lambda_val, lambda_p, lambda_r) ==
    IF FLe(lambda_val, lambda_p) THEN "compacta"
    ELSE IF FLe(lambda_val, lambda_r) THEN "no_compacta"
    ELSE "esbelta"

clasificar_seccion(p) ==
    Val({IF IsRaised(lambda_f) THEN Excepcion(lambda_f)
    ELSE IF IsRaised(lambda_w) THEN Excepcion(lambda_w)
    ELSE IF "E" \notin DOMAIN p THEN Exc("AttributeError")
    ELSE
    Val({IF IsRaised(raiz) THEN Excepcion(raiz)
    ELSE
    Val({[tipo |-> "clasificacion",
          patin_compresion |-> _clasificar_elemento(lambda_f, lambda_p_f_comp, lambda_r_f_comp),
          patin_flexion |-> _clasificar_elemento(lambda_f, lambda_p_f_flex, lambda_r_f_flex),
          alma_flexion |-> _clasificar_elemento(lambda_w, lambda_p_w_flex, lambda_r_w_flex),
          relaciones |-> [lambda_f |-> lambda_f,
                          lambda_w |-> lambda_w,
                          lambda_p_f_comp |-> lambda_p_f_comp,
                          lambda_r_f_comp |-> lambda_r_f_comp,
                          lambda_p_f_flex |-> lambda_p_f_flex,
                          lambda_r_f_flex |-> lambda_r_f_flex,
                          lambda_p_w_flex |-> lambda_p_w_flex,
                          lambda_r_w_flex |-> lambda_r_w_flex]] :
         lambda_p_f_comp \in {FMul(D(56, -2), raiz)},
         lambda_r_f_comp \in {FMul(D(149, -2), raiz)},
         lambda_p_f_flex \in {FMul(D(38, -2), raiz)},
         lambda_r_f_flex \in {FMul(D(10, -1), raiz)},
         lambda_p_w_flex \in {FMul(D(376, -2), raiz)},
         lambda_r_w_flex \in {FMul(D(570, -2), raiz)}}) :
    raiz \in {FSqrt(FDiv(p.E, p.Fy))}}) :
    lambda_f \in {FDiv(p.bf, FMul(D(2, 0), p.tf))},
    lambda_w \in {FDiv(FSub(p.d, FMul(D(2, 0), p.tf)), p.tw)}})

-----------------------------------------------------------------------------
(* ValidadorAISC.verificar_tension                                          *)

\* ModoGobernante with a tie reported as 'fluencia'
ModoGobernanteEmpate(Pt_fluencia, Pt_ruptura) ==
    IF FLe(Pt_fluencia, Pt_ruptura) THEN "fluencia" ELSE "ruptura"

\* 'fluencia' if Pt_fluencia < Pt_ruptura else 'ruptura'
ModoGobernante(Pt_fluencia, Pt_ruptura) ==
    IF FLt(Pt_fluencia, Pt_ruptura) THEN "fluencia" ELSE "ruptura"

verificar_tension(p, c) ==
    Val({
    Val({
    Val({
    Val({IF IsRaised(RDC) THEN Excepcion(RDC)
         ELSE [tipo |-> "tension",
               Pn_fluencia |-> Pn_fluencia,
               Pt_fluencia |-> Pt_fluencia,
               Pn_ruptura |-> Pn_ruptura,
               Pt_ruptura |-> Pt_ruptura,
               Pt_gobernante |-> Pt,
               Pu_aplicada |-> c.Pu,
               RDC |-> RDC,
               estado |-> Estado(RDC),
               modo_gobernante |-> ModoGobernante(Pt_fluencia, Pt_ruptura),
               ecuaciones_ref |-> <<"D2-1", "D2-2">>] :
    RDC \in {FDiv(FAbs(c.Pu), Pt)}}) :
    Pt \in {FMin(Pt_fluencia, Pt_ruptura)}}) :
    Pt_fluencia \in {FMul(D(9, -1), Pn_fluencia)},
    Pt_ruptura \in {FMul(D(75, -2), Pn_ruptura)}}) :
    Pn_fluencia \in {FMul(p.Fy, p.A)},
    Pn_ruptura \in {FMul(p.Fu, p.A)}})

-----------------------------------------------------------------------------
(* ValidadorAISC._verificar_compresion_no_esbeltos (section E3)             *)

\* EsfuerzoCriticoE3 deciding the regime by KL/r alone
EsfuerzoCriticoE3SoloEsbeltez(p, KL_r, Fe, lambda_c) ==
    Val({IF IsRaised(limite) THEN [Fcr |-> limite, modo_pandeo |-> "inelastico"]
         ELSE IF FLe(KL_r, limite)
         THEN [Fcr |-> FMul(Pow0658(lambda_c), p.Fy), modo_pandeo |-> "inelastico"]
         ELSE [Fcr |-> FMul(D(877, -3), Fe), modo_pandeo |-> "elastico"] :
         limite \in {FMul(D(471, -2), FSqrt(FDiv(p.E, p.Fy)))}})

\* EsfuerzoCriticoE3 with the slenderness limit 4.80 * sqrt(E / Fy)
EsfuerzoCriticoE3Limite480(p, KL_r, Fe, lambda_c) ==
    Val({IF IsRaised(limite) THEN [Fcr |-> limite, modo_pandeo |-> "inelastico"]
         ELSE IF FLe(KL_r, limite) \/ FLe(lambda_c, D(225, -2))
         THEN [Fcr |-> FMul(Pow0658(lambda_c), p.Fy), modo_pandeo |-> "inelastico"]
         ELSE [Fcr |-> FMul(D(877, -3), Fe), modo_pandeo |-> "elastico"] :
         limite \in {FMul(D(480, -2), FSqrt(FDiv(p.E, p.Fy)))}})

\* Fcr and modo_pandeo of E3-2 / E3-3, for lambda_c = Fy / Fe; Fcr is raised
\* when the test of the regime or the formula of the regime raises
EsfuerzoCriticoE3(p, KL_r, Fe, lambda_c) ==
    Val({IF IsRaised(limite) THEN [Fcr |-> limite, modo_pandeo |-> "inelastico"]
         ELSE IF FLe(KL_r, limite) \/ FLe(lambda_c, D(225, -2))
         THEN [Fcr |-> FMul(Pow0658(lambda_c), p.Fy), modo_pandeo |-> "inelastico"]
         ELSE [Fcr |-> FMul(D(877, -3), Fe), modo_pandeo |-> "elastico"] :
         limite \in {FMul(D(471, -2), FSqrt(FDiv(p.E, p.Fy)))}})

_verificar_compresion_no_esbeltos(p, c) ==
    Val({
    Val({
    Val({
    Val({
    Val({
    Val({
    Val({
    Val({
    Val({IF IsRaised(x) THEN Excepcion(x)
    ELSE [tipo |-> "compresion",
          KL_r_x |-> KL_r_x,
          KL_r_y |-> KL_r_y,
          KL_r_gobernante |-> KL_r,
          Fe |-> Fe,
          lambda_c |-> lambda_c,
          Fcr |-> critico.Fcr,
          Pn |-> Pn,
          Pc |-> Pc,
          Pu_aplicada |-> FAbs(c.Pu),
          RDC |-> RDC,
          estado |-> Estado(RDC),
          modo_pandeo |-> critico.modo_pandeo,
          ecuaciones_ref |-> <<"E3-1",
              IF critico.modo_pandeo = "inelastico" THEN "E3-2" ELSE "E3-3",
              "E3-4">>] :
    x \in {Levantada(<<KL_r_x, KL_r_y, Fe, lambda_c, critico.Fcr, RDC>>)}}) :
    RDC \in {FDiv(FAbs(c.Pu), Pc)}}) :
    Pc \in {FMul(D(9, -1), Pn)}}) :
    Pn \in {FMul(critico.Fcr, p.A)}}) :
    critico \in {EsfuerzoCriticoE3(p, KL_r, Fe, lambda_c)}}) :
    lambda_c \in {FDiv(p.Fy, Fe)}}) :
    Fe \in {FDiv(FMul(Sq(Pi), p.E), Sq(KL_r))}}) :
    KL_r \in {FMax(KL_r_x, KL_r_y)}}) :
    KL_r_x \in {FDiv(c.Lx, p.rx)},
    KL_r_y \in {FDiv(c.Ly, p.ry)}})

-----------------------------------------------------------------------------
(* ValidadorAISC._verificar_compresion_esbeltos (section E7)                *)

\* E7-3: b * (1 - c1 * sqrt(Fcl / Fn)) * sqrt(Fcl / Fn)
AnchoEfectivo(b, c1, Fcl, Fn) ==
    Val({FMul(FMul(b, FSub(One, FMul(c1, raiz))), raiz) : raiz \in {FSqrt(FDiv(Fcl, Fn))}})

\* E7-5: (c2 * (lambda_r / lam) ** 2) * Fy, capped at Fy
EsfuerzoLocal(c2, lambda_r, lam, Fy) ==
    Val({IF FGt(Fcl, Fy) THEN Fy ELSE Fcl :
         Fcl \in {FMul(FMul(c2, Sq(FDiv(lambda_r, lam))), Fy)}})

\* the effective width be of an element of width b and slenderness lam: b itself
\* unless the element is classified slender and lam > lambda_r; raised when
\* the local stress or the width raises
AnchoElemento(esbelto, b, lam, lambda_r, Fy, Fn) ==
    IF ~esbelto THEN b
    ELSE Val({IF IsRaised(Fcl) THEN Fcl
              ELSE IF FGt(lam, lambda_r) THEN AnchoEfectivo(b, D(22, -2), Fcl, Fn)
              ELSE b :
              Fcl \in {EsfuerzoLocal(D(149, -2), lambda_r, lam, Fy)}})

\* Fcr and modo_pandeo of the E7 path, for lambda_c = sqrt(Fy_mod / Fe); Fcr
\* is raised when the test of the regime or the formula of the regime raises
EsfuerzoCriticoE7(p, KL_r, Fe, Fy_mod, lambda_c) ==
    Val({IF IsRaised(limite) THEN [Fcr |-> limite, modo_pandeo |-> "inelastico"]
         ELSE IF FLe(KL_r, limite) \/ FLe(lambda_c, D(225, -2))
         THEN [Fcr |-> FMul(Pow0658(Sq(lambda_c)), Fy_mod), modo_pandeo |-> "inelastico"]
         ELSE [Fcr |-> FMul(D(877, -3), Fe), modo_pandeo |-> "elastico"] :
         limite \in {FMul(D(471, -2), FSqrt(FDiv(p.E, Fy_mod)))}})

\* the global buckling part of the E7 path, from Ae and the widths
CompresionEsbeltosGlobal(p, c, Ae, be_patin, be_alma) ==
    Val({
    Val({
    Val({
    Val({
    Val({
    Val({
    Val({
    Val({
    Val({IF IsRaised(x) THEN Excepcion(x)
    ELSE [tipo |-> "compresion",
          KL_r_x |-> KL_r_x,
          KL_r_y |-> KL_r_y,
          KL_r_gobernante |-> KL_r,
          Fe |-> Fe,
          lambda_c |-> lambda_c,
          Fcr |-> critico.Fcr,
          Ae |-> Ae,
          Fy_mod |-> Fy_mod,
          be_patin |-> be_patin,
          be_alma |-> be_alma,
          Pn |-> Pn,
          Pc |-> Pc,
          Pu_aplicada |-> FAbs(c.Pu),
          RDC |-> RDC,
          estado |-> Estado(RDC),
          modo_pandeo |-> critico.modo_pandeo,
          tipo_analisis |-> "elementos_esbeltos",
          ecuaciones_ref |-> <<"E7-1", "E7-2", "E7-3", "E7-5">>] :
    x \in {Levantada(<<be_patin, be_alma, Ae, Fy_mod, KL_r_x, KL_r_y, Fe, lambda_c,
                       critico.Fcr, RDC>>)}}) :
    RDC \in {FDiv(FAbs(c.Pu), Pc)}}) :
    Pc \in {FMul(D(9, -1), Pn)}}) :
    Pn \in {FMul(critico.Fcr, Ae)}}) :
    critico \in {EsfuerzoCriticoE7(p, KL_r, Fe, Fy_mod, lambda_c)}}) :
    lambda_c \in {FSqrt(FDiv(Fy_mod, Fe))}}) :
    Fe \in {FDiv(FMul(Sq(Pi), p.E), Sq(KL_r))}}) :
    KL_r \in {FMax(KL_r_x, KL_r_y)}}) :
    Fy_mod \in {FMul(p.Fy, FDiv(Ae, p.A))},
    KL_r_x \in {FDiv(c.Lx, p.rx)},
    KL_r_y \in {FDiv(c.Ly, p.ry)}})

\* AreaEfectiva without the cap at A
AreaEfectivaSinTope(p, be_patin, be_alma) ==
    FSub(FSub(p.A, FMul(FMul(D(2, 0), FSub(p.bf, be_patin)), p.tf)),
         FMul(FSub(FSub(p.d, FMul(D(2, 0), p.tf)), be_alma), p.tw))

\* E7-1: A - 2 * (bf - be_patin) * tf - (d - 2 * tf - be_alma) * tw, capped at A
AreaEfectiva(p, be_patin, be_alma) ==
    Val({IF FGt(Ae, p.A) THEN p.A ELSE Ae :
         Ae \in {FSub(FSub(p.A, FMul(FMul(D(2, 0), FSub(p.bf, be_patin)), p.tf)),
                      FMul(FSub(FSub(p.d, FMul(D(2, 0), p.tf)), be_alma), p.tw))}})

_verificar_compresion_esbeltos(p, c) ==
    Val({IF IsExc(clasificacion) THEN clasificacion
    ELSE
    Val({IF IsExc(previo) THEN previo
    ELSE
    Val({
    Val({IF IsRaised(be_patin) THEN Excepcion(be_patin)
    ELSE
    Val({CompresionEsbeltosGlobal(p, c, AreaEfectiva(p, be_patin, be_alma),
                                  be_patin, be_alma) :
    be_alma \in {AnchoElemento(clasificacion.alma_flexion = "esbelta",
                               FSub(p.d, FMul(D(2, 0), p.tf)),
                               FDiv(FSub(p.d, FMul(D(2, 0), p.tf)), p.tw),
                               FMul(D(570, -2), raiz), p.Fy, previo.Pc)}}) :
    be_patin \in {AnchoElemento(clasificacion.patin_compresion = "esbelta",
                                p.bf,
                                FDiv(p.bf, FMul(D(2, 0), p.tf)),
                                FMul(D(103, -2), raiz), p.Fy, previo.Pc)}}) :
    raiz \in {FSqrt(FDiv(p.E, p.Fy))}}) :
    previo \in {_verificar_compresion_no_esbeltos(p, c)}}) :
    clasificacion \in {clasificar_seccion(p)}})

-----------------------------------------------------------------------------
(* ValidadorAISC.verificar_compresion                                       *)

\* verificar_compresion dispatching on the flange-under-flexure class as well
verificar_compresion_patin_flexion(p, c) ==
    Val({IF IsExc(clasificacion) THEN clasificacion
         ELSE IF \/ clasificacion.patin_compresion = "esbelta"
                 \/ clasificacion.patin_flexion = "esbelta"
                 \/ clasificacion.alma_flexion = "esbelta"
         THEN _verificar_compresion_esbeltos(p, c)
         ELSE _verificar_compresion_no_esbeltos(p, c) :
    clasificacion \in {clasificar_seccion(p)}})

verificar_compresion(p, c) ==
    Val({IF IsExc(clasificacion) THEN clasificacion
         ELSE IF \/ clasificacion.patin_compresion = "esbelta"
                 \/ clasificacion.alma_flexion = "esbelta"
         THEN _verificar_compresion_esbeltos(p, c)
         ELSE _verificar_compresion_no_esbeltos(p, c) :
    clasificacion \in {clasificar_seccion(p)}})

-----------------------------------------------------------------------------
(* ValidadorAISC._verificar_flexion_eje_fuerte (section F2)                 *)

\* J * c / (Sx * ho) with c = 1.0
TorsionRel(p) == FDiv(FMul(p.J, One), FMul(p.Sx, p.ho))

LongitudLp(p) == FMul(FMul(D(176, -2), p.ry), FSqrt(FDiv(p.E, p.Fy)))

RadioRts(p) == FSqrt(FDiv(FSqrt(FMul(p.Iy, p.Cw)), p.Sx))

LongitudLr(p, rts) ==
    Val({FMul(FMul(FMul(D(195, -2), rts), FDiv(p.E, FMul(D(7, -1), p.Fy))),
              FSqrt(FAdd(rel,
                         FSqrt(FAdd(Sq(rel),
                                    FMul(D(676, -2),
                                         Sq(FDiv(FMul(D(7, -1), p.Fy), p.E)))))))) :
         rel \in {TorsionRel(p)}})

\* F2-2: Cb * (Mp - (Mp - 0.7 * Fy * Sx) * (Lt - Lp) / (Lr - Lp))
MnInelastico(p, c, Lp, Lr) ==
    Val({FMul(c.Cb,
              FSub(Mp, FDiv(FMul(FSub(Mp, FMul(FMul(D(7, -1), p.Fy), p.Sx)),
                                 FSub(c.Lt, Lp)),
                            FSub(Lr, Lp)))) :
         Mp \in {FMul(p.Fy, p.Zx)}})

\* F2-3 stress: (Cb * pi**2 * E / (Lt / rts)**2) * sqrt(1 + 0.078 * rel * (Lt / rts)**2)
FcrElastico(p, c, rts) ==
    Val({FMul(FDiv(FMul(FMul(c.Cb, Sq(Pi)), p.E), esbeltez2),
              FSqrt(FAdd(One, FMul(FMul(D(78, -3), TorsionRel(p)), esbeltez2)))) :
         esbeltez2 \in {Sq(FDiv(c.Lt, rts))}})

\* F2-3 without the cap at Mp
MnElasticoSinTope(p, c, rts) == FMul(FcrElastico(p, c, rts), p.Sx)

\* F2-3 with its cap: Mn = Fcr * Sx, and Mp if that is larger than Mp
MnElastico(p, c, rts) ==
    Val({IF FGt(Mn, Mp) THEN Mp ELSE Mn :
         Mn \in {FMul(FcrElastico(p, c, rts), p.Sx)}, Mp \in {FMul(p.Fy, p.Zx)}})

\* the branch of the strong-axis check taken for the unbraced length Lt
RegimenLT(Lt, Lp, Lr) ==
    IF FLe(Lt, Lp) THEN "fluencia"
    ELSE IF FLt(Lt, Lr) /\ FLe(Lt, Lr) THEN "pandeo_LT_inelastico"
    ELSE "pandeo_LT_elastico"

_verificar_flexion_eje_fuerte(p, c) ==
    Val({IF IsExc(clasificacion) THEN clasificacion
    ELSE
    Val({
    Val({
    Val({
    Val({
    Val({
    Val({
    Val({IF IsRaised(x) THEN Excepcion(x)
    ELSE [tipo |-> "flexion_eje_fuerte",
          Lp |-> Lp,
          Lr |-> Lr,
          Lt |-> c.Lt,
          rts |-> rts,
          Mn |-> Mn,
          Mb |-> Mb,
          Mux_aplicada |-> c.Mux,
          RDC |-> RDC,
          estado |-> Estado(RDC),
          estado_limite |-> regimen,
          clasificacion |-> clasificacion.patin_flexion,
          ecuaciones_ref |-> <<IF regimen = "fluencia" THEN "F2-1"
                               ELSE IF regimen = "pandeo_LT_inelastico" THEN "F2-2"
                               ELSE "F2-3",
                               "F2-5", "F2-6">>] :
    x \in {Levantada(<<Lp, rts, Lr, Mn, RDC>>)}}) :
    RDC \in {FDiv(FAbs(c.Mux), Mb)}}) :
    Mb \in {FMul(D(9, -1), Mn)}}) :
    Mn \in {IF regimen = "fluencia" THEN FMul(p.Fy, p.Zx)
            ELSE IF regimen = "pandeo_LT_inelastico" THEN MnInelastico(p, c, Lp, Lr)
            ELSE MnElastico(p, c, rts)}}) :
    regimen \in {RegimenLT(c.Lt, Lp, Lr)}}) :
    Lr \in {LongitudLr(p, rts)}}) :
    Lp \in {LongitudLp(p)},
    rts \in {RadioRts(p)}}) :
    clasificacion \in {clasificar_seccion(p)}})

-----------------------------------------------------------------------------
(* ValidadorAISC._verificar_flexion_eje_debil (section F6)                  *)

\* MnEjeDebil with the reference F6-2 term 0.70 * Fy * Sy
MnEjeDebilFySy(p, clase, rel) ==
    Val({IF IsRaised(Fcr) THEN Fcr
         ELSE IF clase = "compacta" THEN Mp
         ELSE IF clase = "no_compacta"
         THEN FSub(Mp, FMul(FSub(Mp, FMul(FMul(D(70, -2), p.Fy), p.Sy)),
                            FDiv(FSub(rel.lambda_f, rel.lambda_p_f_flex),
                                 FSub(rel.lambda_r_f_flex, rel.lambda_p_f_flex))))
         ELSE FMul(Fcr, p.Sy) :
         Mp \in {FMul(p.Fy, p.Zy)},
         Fcr \in {FDiv(FMul(D(70, -2), p.E), Sq(FDiv(p.bf, p.tf)))}})

\* Mn of F6-1, F6-2 or F6-3 by the class of the flange, after the stress Fcr
\* of F6-4 that the method evaluates first; raised when Fcr or Mn raises
MnEjeDebil(p, clase, rel) ==
    Val({IF IsRaised(Fcr) THEN Fcr
         ELSE IF clase = "compacta" THEN Mp
         ELSE IF clase = "no_compacta"
         THEN FSub(Mp, FMul(FSub(Mp, FMul(FMul(D(70, -2), p.Sy), p.Sy)),
                            FDiv(FSub(rel.lambda_f, rel.lambda_p_f_flex),
                                 FSub(rel.lambda_r_f_flex, rel.lambda_p_f_flex))))
         ELSE FMul(Fcr, p.Sy) :
         Mp \in {FMul(p.Fy, p.Zy)},
         Fcr \in {FDiv(FMul(D(70, -2), p.E), Sq(FDiv(p.bf, p.tf)))}})

_verificar_flexion_eje_debil(p, c) ==
    Val({IF IsExc(clasificacion) THEN clasificacion
    ELSE
    Val({
    Val({
    Val({IF IsRaised(RDC) THEN Excepcion(RDC)
    ELSE [tipo |-> "flexion_eje_debil",
          Mn |-> Mn,
          Mb |-> Mb,
          Muy_aplicada |-> c.Muy,
          RDC |-> RDC,
          estado |-> Estado(RDC),
          estado_limite |-> IF clasificacion.patin_flexion = "compacta" THEN "fluencia"
                            ELSE IF clasificacion.patin_flexion = "no_compacta"
                            THEN "no_compacta"
                            ELSE "esbelta",
          clasificacion |-> clasificacion.patin_flexion,
          ecuaciones_ref |-> <<IF clasificacion.patin_flexion = "compacta" THEN "F6-1"
                               ELSE IF clasificacion.patin_flexion = "no_compacta"
                               THEN "F6-2"
                               ELSE "F6-3">>] :
    RDC \in {FDiv(FAbs(c.Muy), Mb)}}) :
    Mb \in {FMul(D(9, -1), Mn)}}) :
    Mn \in {MnEjeDebil(p, clasificacion.patin_flexion, clasificacion.relaciones)}}) :
    clasificacion \in {clasificar_seccion(p)}})

\* ValidadorAISC.verificar_flexion: eje is "fuerte" or "debil"
verificar_flexion(p, c, eje) ==
    IF eje = "fuerte" THEN _verificar_flexion_eje_fuerte(p, c)
    ELSE _verificar_flexion_eje_debil(p, c)

-----------------------------------------------------------------------------
(* ValidadorAISC.verificar_interaccion_flexo_compresion (chapter H)         *)

\* EcuacionH1 with Pr / Pc = 0.2 selecting H1-1b
EcuacionH1Estricta(Pr, Pc, Mrx, Mcx, Mry, Mcy) ==
    Val({IF IsRaised(axial) THEN [interaccion |-> axial, ecuacion_aplicada |-> "H1-1a"]
         ELSE IF FGt(axial, D(2, -1))
         THEN [interaccion |-> FAdd(axial, FMul(FDiv(D(8, 0), D(9, 0)),
                                                FAdd(FDiv(Mrx, Mcx), FDiv(Mry, Mcy)))),
               ecuacion_aplicada |-> "H1-1a"]
         ELSE [interaccion |-> FAdd(FDiv(Pr, FMul(D(2, 0), Pc)),
                                    FAdd(FDiv(Mrx, Mcx), FDiv(Mry, Mcy))),
               ecuacion_aplicada |-> "H1-1b"] :
         axial \in {FDiv(Pr, Pc)}})

\* EcuacionH1 whose H1-1b takes the whole axial ratio Pr / Pc
EcuacionH1AxialEntero(Pr, Pc, Mrx, Mcx, Mry, Mcy) ==
    Val({IF IsRaised(axial) THEN [interaccion |-> axial, ecuacion_aplicada |-> "H1-1a"]
         ELSE IF FGe(axial, D(2, -1))
         THEN [interaccion |-> FAdd(axial, FMul(FDiv(D(8, 0), D(9, 0)),
                                                FAdd(FDiv(Mrx, Mcx), FDiv(Mry, Mcy)))),
               ecuacion_aplicada |-> "H1-1a"]
         ELSE [interaccion |-> FAdd(axial, FAdd(FDiv(Mrx, Mcx), FDiv(Mry, Mcy))),
               ecuacion_aplicada |-> "H1-1b"] :
         axial \in {FDiv(Pr, Pc)}})

\* EcuacionH1 with H1-1b on both sides of Pr / Pc = 0.2
EcuacionH1SoloH1b(Pr, Pc, Mrx, Mcx, Mry, Mcy) ==
    Val({IF IsRaised(axial) THEN [interaccion |-> axial, ecuacion_aplicada |-> "H1-1a"]
         ELSE [interaccion |-> FAdd(FDiv(Pr, FMul(D(2, 0), Pc)),
                                    FAdd(FDiv(Mrx, Mcx), FDiv(Mry, Mcy))),
               ecuacion_aplicada |-> "H1-1b"] :
         axial \in {FDiv(Pr, Pc)}})

\* H1-1a if Pr / Pc >= 0.2, else H1-1b; interaccion is raised when the test
\* or the equation raises
EcuacionH1(Pr, Pc, Mrx, Mcx, Mry, Mcy) ==
    Val({IF IsRaised(axial) THEN [interaccion |-> axial, ecuacion_aplicada |-> "H1-1a"]
         ELSE IF FGe(axial, D(2, -1))
         THEN [interaccion |-> FAdd(axial, FMul(FDiv(D(8, 0), D(9, 0)),
                                                FAdd(FDiv(Mrx, Mcx), FDiv(Mry, Mcy)))),
               ecuacion_aplicada |-> "H1-1a"]
         ELSE [interaccion |-> FAdd(FDiv(Pr, FMul(D(2, 0), Pc)),
                                    FAdd(FDiv(Mrx, Mcx), FDiv(Mry, Mcy))),
               ecuacion_aplicada |-> "H1-1b"] :
         axial \in {FDiv(Pr, Pc)}})

\* the interaction of the capacities of resultados_previos, compression present
InteraccionConCompresion(c, resultados_previos) ==
    Val({
    Val({IF IsRaised(h1.interaccion) THEN Excepcion(h1.interaccion)
    ELSE [tipo |-> "interaccion",
          interaccion |-> h1.interaccion,
          ecuacion_aplicada |-> h1.ecuacion_aplicada,
          Pr_Pc |-> IF FGt(Pc, Zero) THEN FDiv(Pr, Pc) ELSE Zero,
          Mrx_Mcx |-> IF FGt(Mcx, Zero) THEN FDiv(Mrx, Mcx) ELSE Zero,
          Mry_Mcy |-> IF FGt(Mcy, Zero) THEN FDiv(Mry, Mcy) ELSE Zero,
          Pr |-> Pr,
          Pc |-> Pc,
          Mrx |-> Mrx,
          Mcx |-> Mcx,
          Mry |-> Mry,
          Mcy |-> Mcy,
          estado |-> Estado(h1.interaccion),
          ecuaciones_ref |-> <<h1.ecuacion_aplicada>>] :
    h1 \in {EcuacionH1(Pr, Pc, Mrx, Mcx, Mry, Mcy)}}) :
    Pc \in {resultados_previos.compresion.Pc},
    Mcx \in {IF IsNone(resultados_previos.flexion_eje_fuerte) THEN Zero
             ELSE resultados_previos.flexion_eje_fuerte.Mb},
    Mcy \in {IF IsNone(resultados_previos.flexion_eje_debil) THEN Zero
             ELSE resultados_previos.flexion_eje_debil.Mb},
    Pr \in {FAbs(c.Pu)},
    Mrx \in {FAbs(c.Mux)},
    Mry \in {FAbs(c.Muy)}})

\* verificar_interaccion_flexo_compresion reading 'Pc' without the None test
verificar_interaccion_sin_guardia(c, resultados_previos) ==
    IF IsNone(resultados_previos.compresion)
    THEN Exc("TypeError")
    ELSE InteraccionConCompresion(c, resultados_previos)

verificar_interaccion_flexo_compresion(c, resultados_previos) ==
    IF IsNone(resultados_previos.compresion)
    THEN [tipo |-> "interaccion", estado |-> "ERROR",
          nota |-> "Se requiere verificación de compresión"]
    ELSE InteraccionConCompresion(c, resultados_previos)

-----------------------------------------------------------------------------
(* ValidadorAISC.validar_todo                                               *)

\* ConInteraccion filling the interaction slot whenever a moment is applied
ConInteraccionSinAxial(c, previos) ==
    IF FGt(FAbs(c.Mux), Zero) \/ FGt(FAbs(c.Muy), Zero)
    THEN Val({IF IsExc(inter) THEN inter
              ELSE [previos EXCEPT !.interaccion_flexo_compresion = inter] :
              inter \in {verificar_interaccion_flexo_compresion(c, previos)}})
    ELSE previos

\* the last step of validar_todo: the interaction slot, filled when Pu < 0 and
\* a moment is applied
ConInteraccion(c, previos) ==
    IF FLt(c.Pu, Zero) /\ (FGt(FAbs(c.Mux), Zero) \/ FGt(FAbs(c.Muy), Zero))
    THEN Val({IF IsExc(inter) THEN inter
              ELSE [previos EXCEPT !.interaccion_flexo_compresion = inter] :
              inter \in {verificar_interaccion_flexo_compresion(c, previos)}})
    ELSE previos

validar_todo(p, c) ==
    Val({IF IsExc(tension) THEN tension
         ELSE IF IsExc(compresion) THEN compresion
         ELSE IF IsExc(flexion_eje_fuerte) THEN flexion_eje_fuerte
         ELSE IF IsExc(flexion_eje_debil) THEN flexion_eje_debil
         ELSE IF IsExc(clasificacion_seccion) THEN clasificacion_seccion
         ELSE ConInteraccion(c, [tipo |-> "aggregate",
                                 tension |-> tension,
                                 compresion |-> compresion,
                                 flexion_eje_fuerte |-> flexion_eje_fuerte,
                                 flexion_eje_debil |-> flexion_eje_debil,
                                 clasificacion_seccion |-> clasificacion_seccion,
                                 interaccion_flexo_compresion |-> None]) :
    tension \in {IF FGt(c.Pu, Zero) THEN verificar_tension(p, c) ELSE None},
    compresion \in {IF FLt(c.Pu, Zero) THEN verificar_compresion(p, c) ELSE None},
    flexion_eje_fuerte \in {IF FGt(FAbs(c.Mux), Zero)
                            THEN verificar_flexion(p, c, "fuerte") ELSE None},
    flexion_eje_debil \in {IF FGt(FAbs(c.Muy), Zero)
                           THEN verificar_flexion(p, c, "debil") ELSE None},
    clasificacion_seccion \in {clasificar_seccion(p)}})

-----------------------------------------------------------------------------
(* perfiles_aisc: the catalogue of W sections. A str is the sequence of the *)
(* code points of its characters.                                           *)

\* the printable ASCII characters but the double quote (34), the backslash
\* (92) and the grave accent (96), in runs <<code point of the first, run>>
Ascii ==
    <<<<32, " !">>,
      <<35, "#$%&'()*+,-./0123456789:;<=>?@ABCDEFGHIJKLMNOPQRSTUVWXYZ[">>,
      <<93, "]^_">>,
      <<97, "abcdefghijklmnopqrstuvwxyz{|}~">>>>

\* ord(ch) of one of these characters
Ord(ch) ==
    Val({Ascii[r][1] + (CHOOSE i \in 1..Len(Ascii[r][2]) :
                            SubSeq(Ascii[r][2], i, i) = ch) - 1 :
         r \in {CHOOSE r \in 1..Len(Ascii) :
                    \E i \in 1..Len(Ascii[r][2]) : SubSeq(Ascii[r][2], i, i) = ch}})

\* the str of a literal of these characters
Texto(s) == [i \in 1..Len(s) |-> Ord(SubSeq(s, i, i))]

\* the lower-case mapping of the Unicode database of the interpreter (14.0):
\* a row <<first, last, step, delta>> maps the code points first, first + step,
\* ..., last to themselves plus delta; U+0130 maps to two code points
LowerTab ==
    <<<<65, 90, 1, 32>>, <<192, 214, 1, 32>>, <<216, 222, 1, 32>>, <<256, 302, 2, 1>>,
     <<306, 310, 2, 1>>, <<313, 327, 2, 1>>, <<330, 374, 2, 1>>, <<376, 376, 1, -121>>,
     <<377, 381, 2, 1>>, <<385, 385, 1, 210>>, <<386, 388, 2, 1>>, <<390, 390, 1, 206>>,
     <<391, 391, 1, 1>>, <<393, 394, 1, 205>>, <<395, 395, 1, 1>>, <<398, 398, 1, 79>>,
     <<399, 399, 1, 202>>, <<400, 400, 1, 203>>, <<401, 401, 1, 1>>, <<403, 403, 1, 205>>,
     <<404, 404, 1, 207>>, <<406, 406, 1, 211>>, <<407, 407, 1, 209>>, <<408, 408, 1, 1>>,
     <<412, 412, 1, 211>>, <<413, 413, 1, 213>>, <<415, 415, 1, 214>>, <<416, 420, 2, 1>>,
     <<422, 422, 1, 218>>, <<423, 423, 1, 1>>, <<425, 425, 1, 218>>, <<428, 428, 1, 1>>,
     <<430, 430, 1, 218>>, <<431, 431, 1, 1>>, <<433, 434, 1, 217>>, <<435, 437, 2, 1>>,
     <<439, 439, 1, 219>>, <<440, 440, 1, 1>>, <<444, 444, 1, 1>>, <<452, 452, 1, 2>>,
     <<453, 453, 1, 1>>, <<455, 455, 1, 2>>, <<456, 456, 1, 1>>, <<458, 458, 1, 2>>,
     <<459, 475, 2, 1>>, <<478, 494, 2, 1>>, <<497, 497, 1, 2>>, <<498, 500, 2, 1>>,
     <<502, 502, 1, -97>>, <<503, 503, 1, -56>>, <<504, 542, 2, 1>>, <<544, 544, 1, -130>>,
     <<546, 562, 2, 1>>, <<570, 570, 1, 10795>>, <<571, 571, 1, 1>>, <<573, 573, 1, -163>>,
     <<574, 574, 1, 10792>>, <<577, 577, 1, 1>>, <<579, 579, 1, -195>>, <<580, 580, 1, 69>>,
     <<581, 581, 1, 71>>, <<582, 590, 2, 1>>, <<880, 882, 2, 1>>, <<886, 886, 1, 1>>,
     <<895, 895, 1, 116>>, <<902, 902, 1, 38>>, <<904, 906, 1, 37>>, <<908, 908, 1, 64>>,
     <<910, 911, 1, 63>>, <<913, 929, 1, 32>>, <<931, 939, 1, 32>>, <<975, 975, 1, 8>>,
     <<984, 1006, 2, 1>>, <<1012, 1012, 1, -60>>, <<1015, 1015, 1, 1>>, <<1017, 1017, 1, -7>>,
     <<1018, 1018, 1, 1>>, <<1021, 1023, 1, -130>>, <<1024, 1039, 1, 80>>,
     <<1040, 1071, 1, 32>>, <<1120, 1152, 2, 1>>, <<1162, 1214, 2, 1>>, <<1216, 1216, 1, 15>>,
     <<1217, 1229, 2, 1>>, <<1232, 1326, 2, 1>>, <<1329, 1366, 1, 48>>,
     <<4256, 4293, 1, 7264>>, <<4295, 4295, 1, 7264>>, <<4301, 4301, 1, 7264>>,
     <<5024, 5103, 1, 38864>>, <<5104, 5109, 1, 8>>, <<7312, 7354, 1, -3008>>,
     <<7357, 7359, 1, -3008>>, <<7680, 7828, 2, 1>>, <<7838, 7838, 1, -7615>>,
     <<7840, 7934, 2, 1>>, <<7944, 7951, 1, -8>>, <<7960, 7965, 1, -8>>, <<7976, 7983, 1, -8>>,
     <<7992, 7999, 1, -8>>, <<8008, 8013, 1, -8>>, <<8025, 8031, 2, -8>>,
     <<8040, 8047, 1, -8>>, <<8072, 8079, 1, -8>>, <<8088, 8095, 1, -8>>,
     <<8104, 8111, 1, -8>>, <<8120, 8121, 1, -8>>, <<8122, 8123, 1, -74>>,
     <<8124, 8124, 1, -9>>, <<8136, 8139, 1, -86>>, <<8140, 8140, 1, -9>>,
     <<8152, 8153, 1, -8>>, <<8154, 8155, 1, -100>>, <<8168, 8169, 1, -8>>,
     <<8170, 8171, 1, -112>>, <<8172, 8172, 1, -7>>, <<8184, 8185, 1, -128>>,
     <<8186, 8187, 1, -126>>, <<8188, 8188, 1, -9>>, <<8486, 8486, 1, -7517>>,
     <<8490, 8490, 1, -8383>>, <<8491, 8491, 1, -8262>>, <<8498, 8498, 1, 28>>,
     <<8544, 8559, 1, 16>>, <<8579, 8579, 1, 1>>, <<9398, 9423, 1, 26>>,
     <<11264, 11311, 1, 48>>, <<11360, 11360, 1, 1>>, <<11362, 11362, 1, -10743>>,
     <<11363, 11363, 1, -3814>>, <<11364, 11364, 1, -10727>>, <<11367, 11371, 2, 1>>,
     <<11373, 11373, 1, -10780>>, <<11374, 11374, 1, -10749>>, <<11375, 11375, 1, -10783>>,
     <<11376, 11376, 1, -10782>>, <<11378, 11378, 1, 1>>, <<11381, 11381, 1, 1>>,
     <<11390, 11391, 1, -10815>>, <<11392, 11490, 2, 1>>, <<11499, 11501, 2, 1>>,
     <<11506, 11506, 1, 1>>, <<42560, 42604, 2, 1>>, <<42624, 42650, 2, 1>>,
     <<42786, 42798, 2, 1>>, <<42802, 42862, 2, 1>>, <<42873, 42875, 2, 1>>,
     <<42877, 42877, 1, -35332>>, <<42878, 42886, 2, 1>>, <<42891, 42891, 1, 1>>,
     <<42893, 42893, 1, -42280>>, <<42896, 42898, 2, 1>>, <<42902, 42920, 2, 1>>,
     <<42922, 42922, 1, -42308>>, <<42923, 42923, 1, -42319>>, <<42924, 42924, 1, -42315>>,
     <<42925, 42925, 1, -42305>>, <<42926, 42926, 1, -42308>>, <<42928, 42928, 1, -42258>>,
     <<42929, 42929, 1, -42282>>, <<42930, 42930, 1, -42261>>, <<42931, 42931, 1, 928>>,
     <<42932, 42946, 2, 1>>, <<42948, 42948, 1, -48>>, <<42949, 42949, 1, -42307>>,
     <<42950, 42950, 1, -35384>>, <<42951, 42953, 2, 1>>, <<42960, 42960, 1, 1>>,
     <<42966, 42968, 2, 1>>, <<42997, 42997, 1, 1>>, <<65313, 65338, 1, 32>>,
     <<66560, 66599, 1, 40>>, <<66736, 66771, 1, 40>>, <<66928, 66938, 1, 39>>,
     <<66940, 66954, 1, 39>>, <<66956, 66962, 1, 39>>, <<66964, 66965, 1, 39>>,
     <<68736, 68786, 1, 64>>, <<71840, 71871, 1, 32>>, <<93760, 93791, 1, 32>>,
     <<125184, 125217, 1, 34>>>>

\* the ranges <<first, last>> of the code points with the property Cased
CasedTab ==
    <<<<65, 90>>, <<97, 122>>, <<170, 170>>, <<181, 181>>, <<186, 186>>, <<192, 214>>,
     <<216, 246>>, <<248, 442>>, <<444, 447>>, <<452, 659>>, <<661, 696>>, <<704, 705>>,
     <<736, 740>>, <<837, 837>>, <<880, 883>>, <<886, 887>>, <<890, 893>>, <<895, 895>>,
     <<902, 902>>, <<904, 906>>, <<908, 908>>, <<910, 929>>, <<931, 1013>>, <<1015, 1153>>,
     <<1162, 1327>>, <<1329, 1366>>, <<1376, 1416>>, <<4256, 4293>>, <<4295, 4295>>,
     <<4301, 4301>>, <<4304, 4346>>, <<4349, 4351>>, <<5024, 5109>>, <<5112, 5117>>,
     <<7296, 7304>>, <<7312, 7354>>, <<7357, 7359>>, <<7424, 7615>>, <<7680, 7957>>,
     <<7960, 7965>>, <<7968, 8005>>, <<8008, 8013>>, <<8016, 8023>>, <<8025, 8025>>,
     <<8027, 8027>>, <<8029, 8029>>, <<8031, 8061>>, <<8064, 8116>>, <<8118, 8124>>,
     <<8126, 8126>>, <<8130, 8132>>, <<8134, 8140>>, <<8144, 8147>>, <<8150, 8155>>,
     <<8160, 8172>>, <<8178, 8180>>, <<8182, 8188>>, <<8305, 8305>>, <<8319, 8319>>,
     <<8336, 8348>>, <<8450, 8450>>, <<8455, 8455>>, <<8458, 8467>>, <<8469, 8469>>,
     <<8473, 8477>>, <<8484, 8484>>, <<8486, 8486>>, <<8488, 8488>>, <<8490, 8493>>,
     <<8495, 8500>>, <<8505, 8505>>, <<8508, 8511>>, <<8517, 8521>>, <<8526, 8526>>,
     <<8544, 8575>>, <<8579, 8580>>, <<9398, 9449>>, <<11264, 11492>>, <<11499, 11502>>,
     <<11506, 11507>>, <<11520, 11557>>, <<11559, 11559>>, <<11565, 11565>>, <<42560, 42605>>,
     <<42624, 42653>>, <<42786, 42887>>, <<42891, 42894>>, <<42896, 42954>>, <<42960, 42961>>,
     <<42963, 42963>>, <<42965, 42969>>, <<42997, 42998>>, <<43000, 43002>>, <<43824, 43866>>,
     <<43868, 43880>>, <<43888, 43967>>, <<64256, 64262>>, <<64275, 64279>>, <<65313, 65338>>,
     <<65345, 65370>>, <<66560, 66639>>, <<66736, 66771>>, <<66776, 66811>>, <<66928, 66938>>,
     <<66940, 66954>>, <<66956, 66962>>, <<66964, 66965>>, <<66967, 66977>>, <<66979, 66993>>,
     <<66995, 67001>>, <<67003, 67004>>, <<67456, 67456>>, <<67459, 67461>>, <<67463, 67504>>,
     <<67506, 67514>>, <<68736, 68786>>, <<68800, 68850>>, <<71840, 71903>>, <<93760, 93823>>,
     <<119808, 119892>>, <<119894, 119964>>, <<119966, 119967>>, <<119970, 119970>>,
     <<119973, 119974>>, <<119977, 119980>>, <<119982, 119993>>, <<119995, 119995>>,
     <<119997, 120003>>, <<120005, 120069>>, <<120071, 120074>>, <<120077, 120084>>,
     <<120086, 120092>>, <<120094, 120121>>, <<120123, 120126>>, <<120128, 120132>>,
     <<120134, 120134>>, <<120138, 120144>>, <<120146, 120485>>, <<120488, 120512>>,
     <<120514, 120538>>, <<120540, 120570>>, <<120572, 120596>>, <<120598, 120628>>,
     <<120630, 120654>>, <<120656, 120686>>, <<120688, 120712>>, <<120714, 120744>>,
     <<120746, 120770>>, <<120772, 120779>>, <<122624, 122633>>, <<122635, 122654>>,
     <<125184, 125251>>, <<127280, 127305>>, <<127312, 127337>>, <<127344, 127369>>>>

\* the ranges <<first, last>> of the code points with the property Case_Ignorable
CaseIgnorableTab ==
    <<<<39, 39>>, <<46, 46>>, <<58, 58>>, <<94, 94>>, <<96, 96>>, <<168, 168>>, <<173, 173>>,
     <<175, 175>>, <<180, 180>>, <<183, 184>>, <<688, 879>>, <<884, 885>>, <<890, 890>>,
     <<900, 901>>, <<903, 903>>, <<1155, 1161>>, <<1369, 1369>>, <<1375, 1375>>,
     <<1425, 1469>>, <<1471, 1471>>, <<1473, 1474>>, <<1476, 1477>>, <<1479, 1479>>,
     <<1524, 1524>>, <<1536, 1541>>, <<1552, 1562>>, <<1564, 1564>>, <<1600, 1600>>,
     <<1611, 1631>>, <<1648, 1648>>, <<1750, 1757>>, <<1759, 1768>>, <<1770, 1773>>,
     <<1807, 1807>>, <<1809, 1809>>, <<1840, 1866>>, <<1958, 1968>>, <<2027, 2037>>,
     <<2042, 2042>>, <<2045, 2045>>, <<2070, 2093>>, <<2137, 2139>>, <<2184, 2184>>,
     <<2192, 2193>>, <<2200, 2207>>, <<2249, 2306>>, <<2362, 2362>>, <<2364, 2364>>,
     <<2369, 2376>>, <<2381, 2381>>, <<2385, 2391>>, <<2402, 2403>>, <<2417, 2417>>,
     <<2433, 2433>>, <<2492, 2492>>, <<2497, 2500>>, <<2509, 2509>>, <<2530, 2531>>,
     <<2558, 2558>>, <<2561, 2562>>, <<2620, 2620>>, <<2625, 2626>>, <<2631, 2632>>,
     <<2635, 2637>>, <<2641, 2641>>, <<2672, 2673>>, <<2677, 2677>>, <<2689, 2690>>,
     <<2748, 2748>>, <<2753, 2757>>, <<2759, 2760>>, <<2765, 2765>>, <<2786, 2787>>,
     <<2810, 2815>>, <<2817, 2817>>, <<2876, 2876>>, <<2879, 2879>>, <<2881, 2884>>,
     <<2893, 2893>>, <<2901, 2902>>, <<2914, 2915>>, <<2946, 2946>>, <<3008, 3008>>,
     <<3021, 3021>>, <<3072, 3072>>, <<3076, 3076>>, <<3132, 3132>>, <<3134, 3136>>,
     <<3142, 3144>>, <<3146, 3149>>, <<3157, 3158>>, <<3170, 3171>>, <<3201, 3201>>,
     <<3260, 3260>>, <<3263, 3263>>, <<3270, 3270>>, <<3276, 3277>>, <<3298, 3299>>,
     <<3328, 3329>>, <<3387, 3388>>, <<3393, 3396>>, <<3405, 3405>>, <<3426, 3427>>,
     <<3457, 3457>>, <<3530, 3530>>, <<3538, 3540>>, <<3542, 3542>>, <<3633, 3633>>,
     <<3636, 3642>>, <<3654, 3662>>, <<3761, 3761>>, <<3764, 3772>>, <<3782, 3782>>,
     <<3784, 3789>>, <<3864, 3865>>, <<3893, 3893>>, <<3895, 3895>>, <<3897, 3897>>,
     <<3953, 3966>>, <<3968, 3972>>, <<3974, 3975>>, <<3981, 3991>>, <<3993, 4028>>,
     <<4038, 4038>>, <<4141, 4144>>, <<4146, 4151>>, <<4153, 4154>>, <<4157, 4158>>,
     <<4184, 4185>>, <<4190, 4192>>, <<4209, 4212>>, <<4226, 4226>>, <<4229, 4230>>,
     <<4237, 4237>>, <<4253, 4253>>, <<4348, 4348>>, <<4957, 4959>>, <<5906, 5908>>,
     <<5938, 5939>>, <<5970, 5971>>, <<6002, 6003>>, <<6068, 6069>>, <<6071, 6077>>,
     <<6086, 6086>>, <<6089, 6099>>, <<6103, 6103>>, <<6109, 6109>>, <<6155, 6159>>,
     <<6211, 6211>>, <<6277, 6278>>, <<6313, 6313>>, <<6432, 6434>>, <<6439, 6440>>,
     <<6450, 6450>>, <<6457, 6459>>, <<6679, 6680>>, <<6683, 6683>>, <<6742, 6742>>,
     <<6744, 6750>>, <<6752, 6752>>, <<6754, 6754>>, <<6757, 6764>>, <<6771, 6780>>,
     <<6783, 6783>>, <<6823, 6823>>, <<6832, 6862>>, <<6912, 6915>>, <<6964, 6964>>,
     <<6966, 6970>>, <<6972, 6972>>, <<6978, 6978>>, <<7019, 7027>>, <<7040, 7041>>,
     <<7074, 7077>>, <<7080, 7081>>, <<7083, 7085>>, <<7142, 7142>>, <<7144, 7145>>,
     <<7149, 7149>>, <<7151, 7153>>, <<7212, 7219>>, <<7222, 7223>>, <<7288, 7293>>,
     <<7376, 7378>>, <<7380, 7392>>, <<7394, 7400>>, <<7405, 7405>>, <<7412, 7412>>,
     <<7416, 7417>>, <<7468, 7530>>, <<7544, 7544>>, <<7579, 7679>>, <<8125, 8125>>,
     <<8127, 8129>>, <<8141, 8143>>, <<8157, 8159>>, <<8173, 8175>>, <<8189, 8190>>,
     <<8203, 8207>>, <<8216, 8217>>, <<8228, 8228>>, <<8231, 8231>>, <<8234, 8238>>,
     <<8288, 8292>>, <<8294, 8303>>, <<8305, 8305>>, <<8319, 8319>>, <<8336, 8348>>,
     <<8400, 8432>>, <<11388, 11389>>, <<11503, 11505>>, <<11631, 11631>>, <<11647, 11647>>,
     <<11744, 11775>>, <<11823, 11823>>, <<12293, 12293>>, <<12330, 12333>>, <<12337, 12341>>,
     <<12347, 12347>>, <<12441, 12446>>, <<12540, 12542>>, <<40981, 40981>>, <<42232, 42237>>,
     <<42508, 42508>>, <<42607, 42610>>, <<42612, 42621>>, <<42623, 42623>>, <<42652, 42655>>,
     <<42736, 42737>>, <<42752, 42785>>, <<42864, 42864>>, <<42888, 42890>>, <<42994, 42996>>,
     <<43000, 43001>>, <<43010, 43010>>, <<43014, 43014>>, <<43019, 43019>>, <<43045, 43046>>,
     <<43052, 43052>>, <<43204, 43205>>, <<43232, 43249>>, <<43263, 43263>>, <<43302, 43309>>,
     <<43335, 43345>>, <<43392, 43394>>, <<43443, 43443>>, <<43446, 43449>>, <<43452, 43453>>,
     <<43471, 43471>>, <<43493, 43494>>, <<43561, 43566>>, <<43569, 43570>>, <<43573, 43574>>,
     <<43587, 43587>>, <<43596, 43596>>, <<43632, 43632>>, <<43644, 43644>>, <<43696, 43696>>,
     <<43698, 43700>>, <<43703, 43704>>, <<43710, 43711>>, <<43713, 43713>>, <<43741, 43741>>,
     <<43756, 43757>>, <<43763, 43764>>, <<43766, 43766>>, <<43867, 43871>>, <<43881, 43883>>,
     <<44005, 44005>>, <<44008, 44008>>, <<44013, 44013>>, <<64286, 64286>>, <<64434, 64450>>,
     <<65024, 65039>>, <<65043, 65043>>, <<65056, 65071>>, <<65106, 65106>>, <<65109, 65109>>,
     <<65279, 65279>>, <<65287, 65287>>, <<65294, 65294>>, <<65306, 65306>>, <<65342, 65342>>,
     <<65344, 65344>>, <<65392, 65392>>, <<65438, 65439>>, <<65507, 65507>>, <<65529, 65531>>,
     <<66045, 66045>>, <<66272, 66272>>, <<66422, 66426>>, <<67456, 67461>>, <<67463, 67504>>,
     <<67506, 67514>>, <<68097, 68099>>, <<68101, 68102>>, <<68108, 68111>>, <<68152, 68154>>,
     <<68159, 68159>>, <<68325, 68326>>, <<68900, 68903>>, <<69291, 69292>>, <<69446, 69456>>,
     <<69506, 69509>>, <<69633, 69633>>, <<69688, 69702>>, <<69744, 69744>>, <<69747, 69748>>,
     <<69759, 69761>>, <<69811, 69814>>, <<69817, 69818>>, <<69821, 69821>>, <<69826, 69826>>,
     <<69837, 69837>>, <<69888, 69890>>, <<69927, 69931>>, <<69933, 69940>>, <<70003, 70003>>,
     <<70016, 70017>>, <<70070, 70078>>, <<70089, 70092>>, <<70095, 70095>>, <<70191, 70193>>,
     <<70196, 70196>>, <<70198, 70199>>, <<70206, 70206>>, <<70367, 70367>>, <<70371, 70378>>,
     <<70400, 70401>>, <<70459, 70460>>, <<70464, 70464>>, <<70502, 70508>>, <<70512, 70516>>,
     <<70712, 70719>>, <<70722, 70724>>, <<70726, 70726>>, <<70750, 70750>>, <<70835, 70840>>,
     <<70842, 70842>>, <<70847, 70848>>, <<70850, 70851>>, <<71090, 71093>>, <<71100, 71101>>,
     <<71103, 71104>>, <<71132, 71133>>, <<71219, 71226>>, <<71229, 71229>>, <<71231, 71232>>,
     <<71339, 71339>>, <<71341, 71341>>, <<71344, 71349>>, <<71351, 71351>>, <<71453, 71455>>,
     <<71458, 71461>>, <<71463, 71467>>, <<71727, 71735>>, <<71737, 71738>>, <<71995, 71996>>,
     <<71998, 71998>>, <<72003, 72003>>, <<72148, 72151>>, <<72154, 72155>>, <<72160, 72160>>,
     <<72193, 72202>>, <<72243, 72248>>, <<72251, 72254>>, <<72263, 72263>>, <<72273, 72278>>,
     <<72281, 72283>>, <<72330, 72342>>, <<72344, 72345>>, <<72752, 72758>>, <<72760, 72765>>,
     <<72767, 72767>>, <<72850, 72871>>, <<72874, 72880>>, <<72882, 72883>>, <<72885, 72886>>,
     <<73009, 73014>>, <<73018, 73018>>, <<73020, 73021>>, <<73023, 73029>>, <<73031, 73031>>,
     <<73104, 73105>>, <<73109, 73109>>, <<73111, 73111>>, <<73459, 73460>>, <<78896, 78904>>,
     <<92912, 92916>>, <<92976, 92982>>, <<92992, 92995>>, <<94031, 94031>>, <<94095, 94111>>,
     <<94176, 94177>>, <<94179, 94180>>, <<110576, 110579>>, <<110581, 110587>>,
     <<110589, 110590>>, <<113821, 113822>>, <<113824, 113827>>, <<118528, 118573>>,
     <<118576, 118598>>, <<119143, 119145>>, <<119155, 119170>>, <<119173, 119179>>,
     <<119210, 119213>>, <<119362, 119364>>, <<121344, 121398>>, <<121403, 121452>>,
     <<121461, 121461>>, <<121476, 121476>>, <<121499, 121503>>, <<121505, 121519>>,
     <<122880, 122886>>, <<122888, 122904>>, <<122907, 122913>>, <<122915, 122916>>,
     <<122918, 122922>>, <<123184, 123197>>, <<123566, 123566>>, <<123628, 123631>>,
     <<125136, 125142>>, <<125252, 125259>>, <<127995, 127999>>, <<917505, 917505>>,
     <<917536, 917631>>, <<917760, 917999>>>>

EnRangos(c, rangos) ==
    \E i \in 1..Len(rangos) : rangos[i][1] <= c /\ c <= rangos[i][2]

_PyUnicode_IsCased(c) == EnRangos(c, CasedTab)

_PyUnicode_IsCaseIgnorable(c) == EnRangos(c, CaseIgnorableTab)

\* the row of LowerTab that maps c
FilaLower(c, i) ==
    /\ LowerTab[i][1] <= c
    /\ c <= LowerTab[i][2]
    /\ (c - LowerTab[i][1]) % LowerTab[i][3] = 0

_PyUnicode_ToLowerFull(c) ==
    IF c = 304 THEN <<105, 775>>
    ELSE IF \E i \in 1..Len(LowerTab) : FilaLower(c, i)
    THEN <<c + LowerTab[CHOOSE i \in 1..Len(LowerTab) : FilaLower(c, i)][4]>>
    ELSE <<c>>

\* the capital sigma at position i of s is final when the nearest character
\* before it that is not case-ignorable is cased and the nearest one after it,
\* if there is one, is not cased
handle_capital_sigma(s, i) ==
    Val({IF /\ j >= 1
            /\ _PyUnicode_IsCased(s[j])
            /\ (k > Len(s) \/ ~_PyUnicode_IsCased(s[k]))
         THEN 962 ELSE 963 :
         j \in {Val({n \in 0..(i - 1) :
                        /\ n = 0 \/ ~_PyUnicode_IsCaseIgnorable(s[n])
                        /\ \A m \in (n + 1)..(i - 1) : _PyUnicode_IsCaseIgnorable(s[m])})},
         k \in {Val({n \in (i + 1)..(Len(s) + 1) :
                        /\ n > Len(s) \/ ~_PyUnicode_IsCaseIgnorable(s[n])
                        /\ \A m \in (i + 1)..(n - 1) : _PyUnicode_IsCaseIgnorable(s[m])})}})

lower_ucs4(s, i) ==
    IF s[i] = 931 THEN <<handle_capital_sigma(s, i)>>
    ELSE _PyUnicode_ToLowerFull(s[i])

\* partes[i] \o ... \o partes[j]
RECURSIVE Une(_, _, _)
Une(partes, i, j) ==
    IF i > j THEN << >>
    ELSE IF i = j THEN partes[i]
    ELSE Une(partes, i, (i + j) \div 2) \o Une(partes, ((i + j) \div 2) + 1, j)

\* lower leaving every character as it is
lower_identidad(s) == s

\* str.lower
lower(s) == Une([i \in 1..Len(s) |-> lower_ucs4(s, i)], 1, Len(s))

\* str.startswith
startswith(s, prefijo) ==
    Len(prefijo) <= Len(s) /\ SubSeq(s, 1, Len(prefijo)) = prefijo

\* a < b for str: at the first position where they differ a has the smaller
\* code point, or a ends there
StrLt(a, b) ==
    \E i \in 1..(Len(b)) :
        /\ i <= Len(a) + 1
        /\ SubSeq(a, 1, i - 1) = SubSeq(b, 1, i - 1)
        /\ (i = Len(a) + 1 \/ a[i] < b[i])

\* sorted(...) of a set of distinct str
RECURSIVE sorted(_)
sorted(S) ==
    IF S = {} THEN << >>
    ELSE Val({<<primero>> \o sorted(S \ {primero}) :
              primero \in {CHOOSE a \in S : \A b \in S \ {a} : StrLt(a, b)}})

\* the floats of the decimal literals of a record of keyword arguments: the
\* literal m * 10^ex is written <<m, ex>>, as <<11405, -2>> for 114.05
Flotantes(literales) ==
    [k \in DOMAIN literales |-> D(literales[k][1], literales[k][2])]

\* the parameters of PropiedadesPerfilW.__init__ after self
Parametros ==
    <<"d", "bf", "tf", "tw", "A", "Ix", "Sx", "Zx", "rx", "Iy", "Sy", "Zy",
      "ry", "J", "Cw", "ho", "Fy", "Fu">>

\* the parameters that have a default, with its literal
Predeterminados == [Fy |-> <<3515, 0>>, Fu |-> <<4570, 0>>]

\* repr of the name of a parameter
Comillas(nombre) == <<39>> \o Texto(nombre) \o <<39>>

\* str(n) of a number of arguments, 1 to 16
Decimal(n) == IF n < 10 THEN <<48 + n>> ELSE <<48 + (n \div 10), 48 + (n % 10)>>

\* three names or more of missing arguments: 'J', 'Cw', and 'ho'
RECURSIVE Enumeracion(_)
Enumeracion(nombres) ==
    IF Len(nombres) = 2
    THEN Comillas(nombres[1]) \o Texto(", and ") \o Comillas(nombres[2])
    ELSE Comillas(nombres[1]) \o Texto(", ") \o Enumeracion(Tail(nombres))

\* the message of the TypeError for the missing arguments faltan
MensajeFaltan(faltan) ==
    Texto("PropiedadesPerfilW.__init__() missing ") \o Decimal(Len(faltan))
    \o Texto(" required positional argument")
    \o (IF Len(faltan) = 1 THEN Texto(": ") ELSE Texto("s: "))
    \o (IF Len(faltan) = 1 THEN Comillas(faltan[1])
        ELSE IF Len(faltan) = 2
        THEN Comillas(faltan[1]) \o Texto(" and ") \o Comillas(faltan[2])
        ELSE Enumeracion(faltan))

\* the message of the TypeError for the keyword nombre, which is no parameter
MensajeInesperado(nombre) ==
    Texto("PropiedadesPerfilW.__init__() got an unexpected keyword argument ")
    \o Comillas(nombre)

\* the message of the TypeError for the keyword nombre, which names a
\* parameter that has its value already: self, bound to the new object
MensajeMultiples(nombre) ==
    Texto("PropiedadesPerfilW.__init__() got multiple values for argument ")
    \o Comillas(nombre)

\* PropiedadesPerfilW(**kwargs) of perfiles_aisc, a call with keyword arguments
\* only, as every call of the module is: kwargs is the sequence of the keyword
\* arguments, each <<name, literal>>. The first keyword that is self or is no
\* parameter raises TypeError, then the parameters without default that are
\* not given do; the object has the eighteen attributes and no other.
PropiedadesPerfilW(kwargs) ==
    Val({IF inesperados # << >>
         THEN [tipo |-> "exc", exc |-> "TypeError",
               mensaje |-> IF inesperados[1][1] = "self"
                           THEN MensajeMultiples(inesperados[1][1])
                           ELSE MensajeInesperado(inesperados[1][1])]
         ELSE IF faltan # << >>
         THEN [tipo |-> "exc", exc |-> "TypeError", mensaje |-> MensajeFaltan(faltan)]
         ELSE [k \in {Parametros[i] : i \in 1..Len(Parametros)} |->
                  Val({D(literal[1], literal[2]) :
                       literal \in {IF \E i \in 1..Len(kwargs) : kwargs[i][1] = k
                                    THEN kwargs[CHOOSE i \in 1..Len(kwargs) :
                                                    kwargs[i][1] = k][2]
                                    ELSE Predeterminados[k]}})] :
         inesperados \in {SelectSeq(kwargs, LAMBDA a :
                              \A i \in 1..Len(Parametros) : Parametros[i] # a[1])},
         faltan \in {SelectSeq(Parametros, LAMBDA p :
                         /\ p \notin DOMAIN Predeterminados
                         /\ \A i \in 1..Len(kwargs) : kwargs[i][1] # p)}})

\* the module variables w44x335 to w4x13: each row is the name of a variable
\* and the keyword arguments d, bf, ..., Fy, Fu of its construction, in the
\* order of Parametros and in hundredths: 11405 is the literal 114.05. A
\* literal without a decimal point is an int, held here as the float equal
\* to it: 8900 is the literal 89
PerfilesW ==
    <<<<"w44x335", 11405, 4016, 361, 236, 64258, 52793482, 925825, 1040915, 2868, 5478993,
       272835, 413137, 922, 31298, 674625974, 11044, 351500, 457000>>,
      <<"w44x290", 11265, 3988, 305, 201, 55613, 45334976, 804982, 901226, 2855, 4663385,
       233843, 354009, 917, 20690, 565669937, 10960, 351500, 457000>>,
      <<"w44x230", 10973, 3937, 236, 157, 44129, 35286244, 643297, 715046, 2827, 3568936,
       181267, 273874, 902, 10206, 419487900, 10737, 351500, 457000>>,
      <<"w40x503", 10650, 4247, 518, 333, 96452, 54868837, 1030923, 1179772, 2385, 8606608,
       405379, 614581, 945, 88026, 884755157, 10132, 351500, 457000>>,
      <<"w40x397", 10292, 4115, 399, 257, 76000, 41693090, 810535, 917591, 2342, 6455864,
       313819, 475223, 922, 46355, 636881142, 9893, 351500, 457000>>,
      <<"w40x331", 10033, 4026, 328, 213, 63484, 34077308, 679444, 764930, 2319, 5223827,
       259478, 391788, 907, 29508, 498787995, 9705, 351500, 457000>>,
      <<"w36x300", 9474, 4064, 277, 178, 57548, 29288135, 618291, 694319, 2253, 4396544, 216422,
       327870, 874, 21482, 449247262, 9197, 351500, 457000>>,
      <<"w36x232", 9195, 3988, 211, 137, 44452, 22194375, 482751, 538465, 2235, 3316941, 166368,
       251613, 864, 10518, 321946688, 8984, 351500, 457000>>,
      <<"w36x194", 9037, 3048, 213, 127, 37161, 18378746, 406838, 450913, 2225, 1556918, 102194,
       156774, 648, 8699, 127050624, 8824, 351500, 457000>>,
      <<"w36x160", 8890, 3048, 173, 102, 30645, 14976281, 336902, 372260, 2210, 1256987, 82516,
       126452, 640, 4826, 99853344, 8717, 351500, 457000>>,
      <<"w36x135", 8763, 3048, 140, 79, 25806, 12281988, 280484, 308064, 2182, 1008861, 66226,
       101290, 625, 2575, 76085568, 8623, 351500, 457000>>,
      <<"w33x241", 8750, 4064, 239, 140, 46258, 23356968, 534042, 598361, 2248, 3652248, 179819,
       272129, 889, 14864, 377769187, 8511, 351500, 457000>>,
      <<"w33x201", 8534, 4013, 196, 117, 38548, 19106428, 447812, 499499, 2228, 2967069, 147940,
       223935, 879, 8477, 289528992, 8338, 351500, 457000>>,
      <<"w33x152", 8344, 2896, 188, 107, 29161, 14397572, 345200, 381484, 2223, 1190204, 82258,
       126290, 640, 6477, 114212544, 8156, 351500, 457000>>,
      <<"w33x130", 8230, 2896, 157, 89, 24903, 12092976, 294176, 324387, 2205, 991226, 68516,
       104968, 630, 3871, 88770912, 8073, 351500, 457000>>,
      <<"w33x118", 8159, 2896, 140, 76, 22645, 10801248, 264865, 291355, 2187, 879742, 60787,
       92968, 625, 2742, 76169088, 8019, 351500, 457000>>,
      <<"w30x211", 7988, 3881, 216, 127, 40452, 17388624, 435548, 486226, 2073, 2865408, 147742,
       223742, 841, 11742, 274495872, 7772, 351500, 457000>>,
      <<"w30x173", 7785, 3805, 173, 107, 33161, 13933152, 358065, 397871, 2052, 2275226, 119613,
       180839, 828, 6387, 204170944, 7612, 351500, 457000>>,
      <<"w30x132", 7620, 2667, 165, 97, 25355, 10488768, 275387, 303935, 2035, 826452, 62000,
       95355, 572, 4613, 75182208, 7455, 351500, 457000>>,
      <<"w30x124", 7569, 2642, 157, 89, 23742, 9827355, 259806, 286452, 2035, 773548, 58581,
       89742, 572, 3935, 69487008, 7412, 351500, 457000>>,
      <<"w30x116", 7518, 2667, 142, 84, 22258, 9165942, 243935, 268903, 2027, 720645, 54065,
       82645, 569, 3097, 63356448, 7376, 351500, 457000>>,
      <<"w30x108", 7468, 2642, 132, 76, 20710, 8454490, 226452, 249387, 2022, 659355, 49935,
       76387, 564, 2452, 56690496, 7336, 351500, 457000>>,
      <<"w30x99", 7417, 2667, 117, 64, 18968, 7654710, 206452, 226774, 2012, 589677, 44258,
       67613, 559, 1677, 48229376, 7300, 351500, 457000>>,
      <<"w30x90", 7366, 2642, 104, 61, 17226, 6896613, 187355, 205161, 2002, 526452, 39871,
       60903, 554, 1226, 42494112, 7262, 351500, 457000>>,
      <<"w27x178", 7112, 3581, 193, 119, 34129, 13370903, 376129, 419484, 1979, 2073677, 115871,
       175355, 780, 8903, 187577472, 6919, 351500, 457000>>,
      <<"w27x146", 6934, 3556, 157, 97, 28000, 10754839, 310258, 343742, 1961, 1646903, 92645,
       140000, 767, 4903, 138953568, 6777, 351500, 457000>>,
      <<"w27x114", 6807, 2591, 157, 84, 21871, 8446129, 248323, 273871, 1966, 677742, 52387,
       80387, 556, 3806, 60774144, 6650, 351500, 457000>>,
      <<"w27x102", 6731, 2540, 142, 79, 19548, 7563161, 224839, 247355, 1966, 603161, 47548,
       72774, 556, 2903, 53806464, 6589, 351500, 457000>>,
      <<"w27x94", 6680, 2540, 127, 74, 18065, 6943548, 207935, 228387, 1961, 551548, 43484,
       66452, 551, 2258, 48038688, 6553, 351500, 457000>>,
      <<"w27x84", 6604, 2540, 112, 64, 16129, 6118710, 185355, 202839, 1951, 483355, 38129,
       58129, 546, 1548, 40722528, 6592, 351500, 457000>>,
      <<"w24x162", 6325, 3277, 173, 107, 31097, 10963161, 346839, 386903, 1877, 1723871, 105226,
       159355, 744, 7419, 157969344, 6152, 351500, 457000>>,
      <<"w24x146", 6274, 3251, 157, 97, 28000, 9852387, 314194, 349161, 1877, 1531935, 94258,
       142645, 739, 5677, 140185856, 6117, 351500, 457000>>,
      <<"w24x131", 6223, 3226, 140, 89, 25161, 8741613, 280968, 311484, 1867, 1348387, 83677,
       126452, 732, 4258, 122585856, 6083, 351500, 457000>>,
      <<"w24x117", 6173, 3226, 124, 79, 22452, 7739161, 250839, 277484, 1857, 1189677, 73871,
       111548, 729, 3161, 106738080, 6049, 351500, 457000>>,
      <<"w24x104", 6121, 3201, 109, 74, 19935, 6813355, 222645, 245484, 1849, 1039355, 64968,
       97935, 721, 2258, 91561248, 6012, 351500, 457000>>,
      <<"w24x94", 6096, 2286, 129, 74, 18000, 6306903, 206903, 228129, 1872, 499935, 43742,
       67226, 526, 2387, 42177792, 5967, 351500, 457000>>,
      <<"w24x84", 6045, 2286, 114, 66, 16065, 5580387, 184774, 203226, 1862, 438387, 38387,
       58903, 521, 1677, 36161280, 6031, 351500, 457000>>,
      <<"w24x76", 5994, 2286, 102, 58, 14516, 4987161, 166452, 182839, 1854, 389355, 34065,
       52258, 518, 1161, 31122528, 6092, 351500, 457000>>,
      <<"w24x68", 5969, 2261, 89, 53, 13032, 4412258, 147935, 162194, 1839, 340323, 30129,
       46129, 511, 839, 26470912, 6080, 351500, 457000>>,
      <<"w24x62", 5944, 1778, 102, 58, 11871, 4139355, 139355, 153097, 1867, 180387, 20323,
       31548, 389, 1097, 12580608, 5842, 351500, 457000>>,
      <<"w24x55", 5893, 1778, 89, 51, 10581, 3639355, 123548, 135226, 1857, 156774, 17677,
       27355, 384, 710, 10522528, 5804, 351500, 457000>>,
      <<"w21x201", 5639, 3124, 201, 130, 38581, 10480452, 371742, 417548, 1648, 1696903, 108645,
       165355, 663, 11548, 143483856, 5438, 351500, 457000>>,
      <<"w21x182", 5563, 3124, 178, 119, 34839, 9344710, 336129, 376258, 1638, 1506903, 96516,
       146581, 658, 8710, 126032256, 5385, 351500, 457000>>,
      <<"w21x166", 5512, 3099, 163, 109, 31871, 8433935, 306194, 342258, 1626, 1358387, 87677,
       133097, 653, 6774, 112154880, 5349, 351500, 457000>>,
      <<"w21x147", 5436, 3048, 142, 97, 28258, 7323161, 269484, 300000, 1610, 1173161, 77032,
       116645, 645, 4710, 95687088, 5294, 351500, 457000>>,
      <<"w21x132", 5385, 3048, 127, 89, 25355, 6515097, 242129, 269032, 1603, 1039355, 68258,
       103355, 640, 3419, 83483856, 5258, 351500, 457000>>,
      <<"w21x122", 5359, 3048, 117, 81, 23355, 5982000, 223355, 247742, 1600, 954452, 62645,
       94839, 638, 2710, 75580608, 5242, 351500, 457000>>,
      <<"w21x111", 5309, 3023, 104, 74, 21355, 5373935, 202452, 224194, 1587, 852968, 56452,
       85355, 632, 1935, 66000000, 5205, 351500, 457000>>,
      <<"w21x101", 5283, 3048, 94, 66, 19355, 4807548, 182129, 201355, 1577, 759871, 49935,
       75484, 627, 1355, 57212928, 5189, 351500, 457000>>,
      <<"w21x93", 5232, 2083, 122, 74, 17871, 4559742, 174452, 192839, 1598, 376839, 36194,
       55742, 459, 1871, 26606496, 5110, 351500, 457000>>,
      <<"w21x83", 5182, 2083, 107, 66, 15935, 4017742, 155161, 171290, 1588, 326839, 31355,
       48258, 452, 1258, 22122528, 5075, 351500, 457000>>,
      <<"w21x73", 5156, 2083, 94, 58, 14065, 3517419, 136645, 150387, 1580, 285161, 27355,
       41935, 450, 871, 18709632, 5062, 351500, 457000>>,
      <<"w21x68", 5131, 2083, 86, 53, 13032, 3261226, 127226, 139871, 1580, 260129, 24968,
       38258, 447, 677, 16819392, 5045, 351500, 457000>>,
      <<"w21x62", 5207, 2083, 79, 51, 11871, 3000000, 115355, 127161, 1590, 239355, 22968,
       35161, 449, 516, 15387072, 5128, 351500, 457000>>,
      <<"w21x57", 5156, 1651, 91, 51, 10903, 2793548, 108452, 119484, 1600, 135161, 16387,
       25484, 351, 613, 8696784, 5065, 351500, 457000>>,
      <<"w21x50", 5131, 1651, 79, 46, 9613, 2438710, 95161, 104645, 1593, 116903, 14194, 22065,
       348, 419, 7258080, 5052, 351500, 457000>>,
      <<"w21x48", 5105, 2032, 69, 43, 9161, 2358065, 92452, 101677, 1605, 196774, 19355, 29677,
       463, 387, 12412928, 5036, 351500, 457000>>,
      <<"w21x44", 5232, 1651, 71, 43, 8452, 2219355, 84839, 93226, 1621, 108581, 13161, 20452,
       358, 323, 6677472, 5161, 351500, 457000>>,
      <<"w18x192", 4801, 2819, 201, 132, 36839, 8346129, 347935, 392903, 1504, 1390000, 98645,
       150968, 615, 10903, 107612928, 4600, 351500, 457000>>,
      <<"w18x175", 4750, 2819, 183, 119, 33548, 7554710, 318194, 358452, 1501, 1256645, 89161,
       136452, 612, 8387, 96709632, 4567, 351500, 457000>>,
      <<"w18x158", 4699, 2819, 165, 109, 30323, 6796645, 289355, 325484, 1496, 1131677, 80323,
       122839, 610, 6387, 86709632, 4534, 351500, 457000>>,
      <<"w18x143", 4648, 2794, 147, 99, 27419, 6055161, 260581, 292774, 1486, 1006645, 72065,
       110129, 605, 4710, 76819392, 4501, 351500, 457000>>,
      <<"w18x130", 4597, 2769, 132, 89, 24903, 5430323, 236258, 265161, 1478, 898387, 64968,
       99032, 600, 3548, 67935456, 4465, 351500, 457000>>,
      <<"w18x119", 4572, 2794, 119, 81, 22839, 4922194, 215355, 241548, 1468, 818065, 58581,
       89355, 599, 2645, 61122528, 4453, 351500, 457000>>,
      <<"w18x106", 4521, 2769, 104, 74, 20323, 4314065, 190968, 213871, 1458, 712774, 51484,
       78581, 592, 1839, 52387072, 4417, 351500, 457000>>,
      <<"w18x97", 4496, 2794, 94, 66, 18581, 3872581, 172452, 192774, 1443, 642774, 46000,
       70258, 587, 1290, 45935456, 4402, 351500, 457000>>,
      <<"w18x86", 4597, 2794, 84, 58, 16516, 3431097, 149355, 166452, 1443, 576452, 41290,
       63097, 592, 903, 40645152, 4513, 351500, 457000>>,
      <<"w18x76", 4521, 2794, 74, 53, 14581, 3031290, 134129, 149161, 1440, 510129, 36516,
       55613, 592, 645, 35580608, 4547, 351500, 457000>>,
      <<"w18x71", 4597, 1905, 102, 61, 13613, 2958968, 128839, 143484, 1473, 239355, 25161,
       38968, 419, 903, 15483856, 4495, 351500, 457000>>,
      <<"w18x65", 4572, 1905, 91, 53, 12452, 2669935, 116903, 129871, 1463, 214387, 22516,
       34774, 414, 645, 13548384, 4481, 351500, 457000>>,
      <<"w18x60", 4572, 1905, 84, 51, 11484, 2455484, 107548, 119484, 1463, 197742, 20774,
       32065, 414, 516, 12387072, 4488, 351500, 457000>>,
      <<"w18x55", 4572, 1905, 76, 46, 10516, 2241032, 98194, 109097, 1461, 181161, 19032, 29355,
       414, 387, 11225808, 4496, 351500, 457000>>,
      <<"w18x50", 4572, 1905, 69, 41, 9548, 2010000, 88065, 97613, 1450, 164516, 17290, 26645,
       414, 290, 10064544, 4503, 351500, 457000>>,
      <<"w18x46", 4597, 1524, 79, 46, 8839, 1939355, 84452, 93677, 1481, 97355, 12774, 19935,
       332, 355, 5225808, 4518, 351500, 457000>>,
      <<"w18x40", 4547, 1524, 69, 41, 7677, 1678387, 73935, 81871, 1478, 83548, 10968, 17161,
       330, 226, 4258080, 4578, 351500, 457000>>,
      <<"w18x35", 4496, 1524, 61, 36, 6710, 1447226, 64452, 71097, 1468, 71935, 9452, 14774,
       328, 161, 3548384, 4535, 351500, 457000>>,
      <<"w16x100", 4318, 2540, 117, 76, 19161, 4197742, 194516, 218710, 1481, 593161, 46710,
       71742, 556, 2258, 41935456, 4201, 351500, 457000>>,
      <<"w16x89", 4267, 2540, 102, 66, 17032, 3681097, 172581, 193355, 1471, 518581, 40839,
       62645, 551, 1548, 35935456, 4165, 351500, 457000>>,
      <<"w16x77", 4216, 2540, 89, 58, 14774, 3164452, 150258, 168000, 1463, 444000, 34968,
       53677, 549, 1032, 29935456, 4127, 351500, 457000>>,
      <<"w16x67", 4191, 2540, 76, 51, 12839, 2756129, 131613, 146774, 1463, 386000, 30452,
       46645, 549, 677, 25096704, 4115, 351500, 457000>>,
      <<"w16x57", 4089, 1803, 89, 53, 10903, 2399677, 117419, 130774, 1483, 181161, 20129,
       31290, 409, 710, 10522528, 4000, 351500, 457000>>,
      <<"w16x50", 4064, 1803, 79, 46, 9548, 2101871, 103548, 115161, 1483, 156258, 17355, 26968,
       404, 484, 8838720, 3985, 351500, 457000>>,
      <<"w16x45", 4039, 1778, 71, 43, 8645, 1879032, 93161, 103548, 1476, 139677, 15742, 24452,
       401, 355, 7806464, 3968, 351500, 457000>>,
      <<"w16x40", 4064, 1778, 66, 41, 7677, 1714516, 84452, 93871, 1493, 131484, 14839, 23032,
       414, 290, 7354848, 3998, 351500, 457000>>,
      <<"w16x36", 4039, 1778, 58, 36, 6903, 1525161, 75677, 83871, 1486, 114903, 12968, 20129,
       409, 210, 6354848, 3981, 351500, 457000>>,
      <<"w16x31", 3988, 1402, 61, 38, 5935, 1335742, 67032, 73935, 1501, 63548, 9065, 14258,
       328, 194, 3161280, 3927, 351500, 457000>>,
      <<"w16x26", 3937, 1397, 51, 30, 4968, 1088387, 55355, 60774, 1481, 51871, 7419, 11613,
       323, 113, 2470912, 3886, 351500, 457000>>,
      <<"w14x808", 4521, 4318, 762, 483, 154839, 33022581, 1461290, 1667742, 1461, 9990000,
       462774, 715484, 803, 161935, 666709632, 3759, 351500, 457000>>,
      <<"w14x730", 4343, 4242, 681, 432, 139871, 28635484, 1319355, 1500000, 1430, 8606645,
       405806, 628065, 785, 125806, 566709632, 3662, 351500, 457000>>,
      <<"w14x665", 4216, 4166, 622, 394, 127419, 25519355, 1210968, 1377419, 1417, 7546452,
       362258, 561290, 770, 101935, 480000000, 3594, 351500, 457000>>,
      <<"w14x605", 4089, 4115, 564, 358, 115935, 22635484, 1107097, 1258065, 1397, 6615000,
       321613, 498387, 755, 82903, 410000000, 3525, 351500, 457000>>,
      <<"w14x550", 3962, 4039, 513, 325, 105484, 19919355, 1005161, 1141935, 1374, 5748387,
       284839, 441548, 739, 66774, 346709632, 3449, 351500, 457000>>,
      <<"w14x500", 3861, 3988, 465, 295, 95806, 17661290, 914839, 1038710, 1357, 5048387,
       253226, 392581, 726, 54129, 296709632, 3396, 351500, 457000>>,
      <<"w14x455", 3759, 3937, 424, 269, 87226, 15661290, 833226, 945161, 1341, 4415000, 224387,
       347742, 711, 43871, 253419392, 3335, 351500, 457000>>,
      <<"w14x426", 3683, 3912, 394, 251, 81677, 14519355, 788774, 893548, 1334, 4056645, 207419,
       321548, 704, 37935, 226709632, 3289, 351500, 457000>>,
      <<"w14x398", 3607, 3861, 368, 234, 76323, 13361290, 740645, 838710, 1323, 3715000, 192516,
       298387, 698, 31935, 200000000, 3239, 351500, 457000>>,
      <<"w14x370", 3556, 3835, 340, 216, 70968, 12261290, 689677, 780645, 1316, 3390000, 176774,
       273871, 691, 26774, 176709632, 3216, 351500, 457000>>,
      <<"w14x342", 3480, 3785, 315, 201, 65613, 11219677, 645161, 728710, 1308, 3065000, 161935,
       250968, 683, 22581, 156709632, 3165, 351500, 457000>>,
      <<"w14x311", 3404, 3734, 287, 183, 59613, 10103226, 593548, 670000, 1301, 2715000, 145484,
       225484, 676, 18387, 136709632, 3117, 351500, 457000>>,
      <<"w14x283", 3353, 3683, 262, 168, 54258, 9061290, 540645, 610645, 1293, 2423387, 131613,
       204194, 668, 15000, 120000000, 3091, 351500, 457000>>,
      <<"w14x257", 3277, 3632, 239, 152, 49226, 8103226, 495161, 558065, 1285, 2165000, 119355,
       184839, 663, 12258, 103419392, 3038, 351500, 457000>>,
      <<"w14x233", 3226, 3581, 216, 137, 44710, 7261290, 450323, 507742, 1275, 1940000, 108387,
       167742, 658, 9935, 90129024, 3010, 351500, 457000>>,
      <<"w14x211", 3175, 3556, 196, 124, 40452, 6503226, 409677, 461290, 1268, 1740000, 97742,
       151290, 655, 7935, 78709632, 2979, 351500, 457000>>,
      <<"w14x193", 3124, 3505, 178, 114, 37032, 5853226, 374839, 421935, 1258, 1565000, 89355,
       138065, 650, 6452, 68709632, 2946, 351500, 457000>>,
      <<"w14x176", 3073, 3480, 163, 104, 33742, 5261290, 342581, 385484, 1250, 1415000, 81355,
       125806, 648, 5258, 60000000, 2910, 351500, 457000>>,
      <<"w14x159", 3023, 3429, 147, 94, 30516, 4678065, 309677, 348065, 1240, 1265000, 73871,
       114194, 643, 4258, 52000000, 2876, 351500, 457000>>,
      <<"w14x145", 2997, 3988, 132, 84, 27806, 4253226, 283871, 319355, 1237, 1148387, 57613,
       89355, 643, 3419, 45354816, 2865, 351500, 457000>>,
      <<"w14x132", 2946, 3962, 119, 76, 25355, 3828387, 260000, 291935, 1230, 1031613, 52065,
       80645, 638, 2710, 39935456, 2827, 351500, 457000>>,
      <<"w14x120", 2921, 3937, 107, 69, 23097, 3453387, 236774, 265484, 1222, 931613, 47355,
       73355, 635, 2129, 35161280, 2814, 351500, 457000>>,
      <<"w14x109", 2896, 3912, 97, 61, 20903, 3103387, 214194, 240000, 1217, 840000, 42968,
       66452, 633, 1613, 30838720, 2799, 351500, 457000>>,
      <<"w14x99", 2845, 3861, 89, 56, 19032, 2778387, 195484, 218710, 1209, 756645, 39161,
       60645, 630, 1226, 27096704, 2756, 351500, 457000>>,
      <<"w14x90", 2819, 3835, 79, 51, 17290, 2486645, 176452, 197419, 1200, 681613, 35548,
       55000, 627, 871, 23548384, 2740, 351500, 457000>>,
      <<"w14x82", 2794, 2540, 89, 51, 15742, 2270000, 162581, 181613, 1201, 315000, 24839,
       38581, 447, 968, 11935456, 2705, 351500, 457000>>,
      <<"w14x74", 2794, 2540, 79, 46, 14258, 2036645, 145806, 162581, 1196, 281613, 22194,
       34452, 445, 677, 10412928, 2715, 351500, 457000>>,
      <<"w14x68", 2769, 2540, 74, 41, 13032, 1853387, 134129, 149613, 1191, 256645, 20258,
       31419, 442, 516, 9354848, 2695, 351500, 457000>>,
      <<"w14x61", 2743, 2515, 66, 38, 11742, 1645000, 120000, 133548, 1184, 226645, 18065,
       28065, 439, 355, 8000000, 2677, 351500, 457000>>,
      <<"w14x53", 3302, 2032, 66, 36, 10129, 1453387, 88065, 98387, 1199, 106645, 10516, 16452,
       325, 355, 3258080, 3236, 351500, 457000>>,
      <<"w14x48", 3277, 2032, 61, 33, 9161, 1315000, 80323, 89677, 1196, 96645, 9548, 14968,
       325, 258, 2838720, 3216, 351500, 457000>>,
      <<"w14x43", 3226, 2032, 53, 30, 8258, 1156645, 71806, 80000, 1184, 85000, 8387, 13161,
       320, 210, 2412928, 3173, 351500, 457000>>,
      <<"w14x38", 3785, 1702, 51, 30, 7290, 1065000, 56323, 62839, 1209, 43484, 5113, 8065, 244,
       161, 967752, 3734, 351500, 457000>>,
      <<"w14x34", 3556, 1676, 46, 28, 6516, 940000, 52903, 58903, 1201, 38581, 4613, 7226, 244,
       129, 838720, 3510, 351500, 457000>>,
      <<"w14x30", 3505, 1651, 41, 25, 5742, 815000, 46516, 51677, 1191, 33387, 4065, 6387, 241,
       97, 709632, 3464, 351500, 457000>>,
      <<"w14x26", 3480, 1270, 46, 25, 4968, 723387, 41548, 46258, 1209, 18645, 2935, 4645, 194,
       97, 322560, 3434, 351500, 457000>>,
      <<"w14x22", 3429, 1270, 38, 23, 4258, 606645, 35419, 39355, 1196, 15548, 2452, 3871, 191,
       65, 258080, 3391, 351500, 457000>>,
      <<"w12x336", 3429, 3226, 300, 191, 64452, 9303387, 542903, 619355, 1201, 2323387, 144194,
       222581, 600, 20000, 130000000, 3129, 351500, 457000>>,
      <<"w12x305", 3353, 3175, 274, 175, 58581, 8386645, 500645, 570645, 1196, 2065000, 130000,
       200645, 594, 16129, 113419392, 3079, 351500, 457000>>,
      <<"w12x279", 3277, 3150, 249, 160, 53548, 7570000, 462258, 525806, 1189, 1840000, 116774,
       180000, 587, 13097, 100129024, 3028, 351500, 457000>>,
      <<"w12x252", 3226, 3099, 226, 145, 48387, 6786645, 420968, 478710, 1184, 1640000, 105806,
       163226, 582, 10581, 88709632, 3000, 351500, 457000>>,
      <<"w12x230", 3175, 3048, 206, 132, 44129, 6145000, 387097, 440323, 1181, 1473387, 96774,
       149032, 577, 8645, 78709632, 2969, 351500, 457000>>,
      <<"w12x210", 3124, 3023, 188, 119, 40323, 5553387, 355484, 403871, 1173, 1323387, 87548,
       134839, 572, 6968, 68709632, 2936, 351500, 457000>>,
      <<"w12x190", 3073, 2972, 170, 109, 36452, 4970000, 323548, 367742, 1168, 1181613, 79548,
       122581, 569, 5613, 60000000, 2903, 351500, 457000>>,
      <<"w12x170", 3048, 2921, 152, 97, 32645, 4386645, 288065, 327097, 1159, 1040000, 71290,
       109677, 564, 4387, 52000000, 2896, 351500, 457000>>,
      <<"w12x152", 2997, 2896, 135, 87, 29161, 3870000, 258387, 292903, 1151, 923387, 63742,
       98065, 561, 3355, 45161280, 2862, 351500, 457000>>,
      <<"w12x136", 2972, 2845, 122, 79, 26065, 3453387, 232581, 263548, 1151, 823387, 57935,
       89032, 561, 2677, 39935456, 2850, 351500, 457000>>,
      <<"w12x120", 2921, 2819, 107, 71, 23032, 3003387, 205806, 233226, 1140, 715000, 50774,
       78065, 556, 1935, 33935456, 2814, 351500, 457000>>,
      <<"w12x106", 2870, 2794, 94, 61, 20323, 2586645, 180323, 204194, 1128, 615000, 44065,
       67742, 549, 1355, 27935456, 2776, 351500, 457000>>,
      <<"w12x96", 2845, 2769, 86, 56, 18452, 2353387, 165484, 186774, 1128, 560000, 40452,
       62258, 551, 1065, 24935456, 2759, 351500, 457000>>,
      <<"w12x87", 2819, 2743, 76, 51, 16710, 2120000, 150323, 169677, 1125, 503387, 36710,
       56452, 549, 774, 21935456, 2743, 351500, 457000>>,
      <<"w12x79", 2794, 2718, 69, 47, 15161, 1920000, 137419, 154839, 1125, 456645, 33613,
       51677, 549, 581, 19548384, 2725, 351500, 457000>>,
      <<"w12x72", 2769, 2667, 64, 43, 13806, 1753387, 126774, 142581, 1125, 415000, 31161,
       47935, 549, 452, 17548384, 2705, 351500, 457000>>,
      <<"w12x65", 2743, 2642, 58, 39, 12452, 1570000, 114516, 128710, 1123, 373387, 28258,
       43548, 548, 355, 15548384, 2685, 351500, 457000>>,
      <<"w12x58", 2718, 2540, 53, 36, 11161, 1403387, 103226, 116129, 1120, 335000, 26452,
       40645, 548, 258, 13935456, 2665, 351500, 457000>>,
      <<"w12x53", 3048, 2540, 51, 35, 10129, 1270000, 83226, 93548, 1120, 303387, 23935, 36774,
       548, 226, 12645152, 2997, 351500, 457000>>,
      <<"w12x50", 3023, 2032, 64, 38, 9548, 1220000, 80774, 90645, 1130, 150000, 14774, 23097,
       396, 323, 5709632, 2959, 351500, 457000>>,
      <<"w12x45", 2997, 2032, 58, 33, 8645, 1093387, 72968, 81935, 1125, 135000, 13355, 20839,
       396, 226, 4935456, 2939, 351500, 457000>>,
      <<"w12x40", 2972, 2032, 51, 30, 7677, 970000, 65355, 73290, 1123, 120000, 11871, 18581,
       396, 161, 4258080, 2921, 351500, 457000>>,
      <<"w12x35", 3048, 1651, 53, 30, 6710, 886645, 58194, 65355, 1151, 63387, 7677, 12065, 307,
       161, 1935456, 2995, 351500, 457000>>,
      <<"w12x30", 3023, 1651, 44, 26, 5742, 756645, 50065, 56129, 1146, 53387, 6452, 10129, 305,
       113, 1548384, 2979, 351500, 457000>>,
      <<"w12x26", 2997, 1651, 38, 23, 4968, 653387, 43677, 48903, 1146, 45806, 5548, 8710, 304,
       81, 1258080, 2959, 351500, 457000>>,
      <<"w12x22", 2972, 1016, 43, 26, 4258, 570000, 38452, 43097, 1156, 16645, 3277, 5161, 198,
       81, 258080, 2929, 351500, 457000>>,
      <<"w12x19", 2946, 1016, 36, 24, 3677, 490000, 33355, 37355, 1153, 14129, 2787, 4387, 196,
       65, 209632, 2910, 351500, 457000>>,
      <<"w12x16", 2921, 1016, 28, 23, 3065, 406645, 27935, 31226, 1151, 11613, 2290, 3613, 194,
       48, 161280, 2893, 351500, 457000>>,
      <<"w12x14", 2896, 1016, 23, 20, 2645, 350000, 24194, 27032, 1151, 9871, 1935, 3065, 193,
       32, 129024, 2873, 351500, 457000>>,
      <<"w10x112", 2870, 2565, 124, 76, 21484, 2670000, 186129, 211290, 1115, 590000, 46065,
       71613, 523, 2839, 28709632, 2746, 351500, 457000>>,
      <<"w10x100", 2819, 2540, 112, 69, 19161, 2390000, 169677, 192581, 1115, 528387, 41613,
       64516, 523, 2194, 25161280, 2707, 351500, 457000>>,
      <<"w10x88", 2769, 2540, 99, 61, 16839, 2103387, 151935, 172258, 1115, 465000, 36645,
       56774, 526, 1613, 21548384, 2670, 351500, 457000>>,
      <<"w10x77", 2718, 2515, 87, 53, 14774, 1830000, 134839, 152581, 1112, 406645, 32387,
       50129, 526, 1129, 18387072, 2631, 351500, 457000>>,
      <<"w10x68", 2692, 2515, 76, 46, 13097, 1590000, 118258, 133548, 1102, 353387, 28129,
       43548, 520, 774, 15548384, 2616, 351500, 457000>>,
      <<"w10x60", 2642, 2515, 66, 41, 11548, 1373387, 104194, 117742, 1090, 303387, 24194,
       37419, 513, 516, 12709632, 2576, 351500, 457000>>,
      <<"w10x54", 2616, 2515, 59, 37, 10387, 1220000, 93355, 105484, 1085, 270000, 21548, 33355,
       510, 387, 11122528, 2557, 351500, 457000>>,
      <<"w10x49", 2591, 2515, 56, 34, 9419, 1120000, 86452, 97677, 1090, 250000, 19871, 30839,
       515, 323, 10258080, 2535, 351500, 457000>>,
      <<"w10x45", 2565, 2032, 62, 36, 8645, 1016645, 79355, 89677, 1085, 128387, 12645, 19742,
       386, 355, 4935456, 2503, 351500, 457000>>,
      <<"w10x39", 2540, 2007, 53, 32, 7548, 886645, 69935, 78710, 1085, 111613, 11161, 17419,
       384, 242, 4161280, 2487, 351500, 457000>>,
      <<"w10x33", 2489, 2007, 43, 29, 6323, 740000, 59548, 67032, 1082, 93387, 9323, 14581, 384,
       161, 3354848, 2446, 351500, 457000>>,
      <<"w10x30", 2565, 1402, 51, 30, 5742, 686645, 53613, 60645, 1095, 39161, 5581, 8774, 261,
       161, 1000000, 2514, 351500, 457000>>,
      <<"w10x26", 2540, 1402, 44, 25, 4968, 593387, 46774, 52839, 1095, 33387, 4774, 7484, 259,
       113, 806464, 2496, 351500, 457000>>,
      <<"w10x22", 2515, 1397, 36, 22, 4258, 503387, 40065, 45161, 1087, 28387, 4065, 6387, 259,
       81, 645152, 2479, 351500, 457000>>,
      <<"w10x19", 2616, 1024, 39, 25, 3645, 446645, 34194, 38581, 1107, 13387, 2613, 4129, 191,
       81, 258080, 2577, 351500, 457000>>,
      <<"w10x17", 2591, 1024, 33, 24, 3161, 386645, 29871, 33742, 1105, 11419, 2232, 3548, 191,
       65, 209632, 2558, 351500, 457000>>,
      <<"w10x15", 2565, 1016, 27, 23, 2710, 330000, 25742, 29097, 1105, 9677, 1910, 3032, 189,
       48, 161280, 2538, 351500, 457000>>,
      <<"w10x12", 2527, 1016, 21, 19, 2258, 270000, 21355, 24129, 1095, 7935, 1565, 2484, 187,
       32, 129024, 2506, 351500, 457000>>,
      <<"w8x67", 2286, 2096, 94, 58, 12839, 973387, 85161, 98258, 871, 211613, 20258, 31871,
       406, 1355, 7935456, 2192, 351500, 457000>>,
      <<"w8x58", 2235, 2083, 81, 51, 11161, 836645, 74839, 86129, 866, 183387, 17613, 27677,
       406, 903, 6677472, 2154, 351500, 457000>>,
      <<"w8x48", 2184, 2057, 68, 40, 9226, 683387, 62645, 71935, 861, 150000, 14581, 22903, 404,
       548, 5225808, 2116, 351500, 457000>>,
      <<"w8x40", 2159, 2032, 56, 36, 7677, 560000, 51935, 59677, 853, 123387, 12161, 19161, 401,
       323, 4161280, 2103, 351500, 457000>>,
      <<"w8x35", 2134, 2032, 49, 31, 6710, 490000, 45968, 52774, 856, 108387, 10677, 16839, 404,
       226, 3548384, 2085, 351500, 457000>>,
      <<"w8x31", 2032, 2032, 43, 29, 5935, 433387, 42710, 48968, 856, 96645, 9516, 14968, 404,
       161, 3161280, 1989, 351500, 457000>>,
      <<"w8x28", 2057, 1651, 52, 29, 5355, 400000, 38903, 44645, 864, 46645, 5645, 8871, 295,
       177, 1258080, 2005, 351500, 457000>>,
      <<"w8x24", 2032, 1651, 43, 25, 4613, 346645, 34194, 39161, 864, 40000, 4839, 7581, 295,
       113, 967752, 1989, 351500, 457000>>,
      <<"w8x21", 2108, 1334, 40, 25, 4032, 310000, 29484, 33742, 876, 21613, 3242, 5097, 232,
       97, 387072, 2068, 351500, 457000>>,
      <<"w8x18", 2083, 1334, 33, 23, 3484, 263387, 25355, 29032, 869, 18387, 2758, 4355, 229,
       65, 306464, 2050, 351500, 457000>>,
      <<"w8x15", 2057, 1020, 32, 25, 2871, 230000, 22387, 25548, 894, 10065, 1974, 3129, 187,
       65, 129024, 2025, 351500, 457000>>,
      <<"w8x13", 2032, 1016, 25, 23, 2452, 193387, 19097, 21742, 889, 8387, 1652, 2613, 185, 48,
       96784, 2007, 351500, 457000>>,
      <<"w8x10", 2004, 1001, 52, 43, 1910, 128199, 12800, 14500, 818, 8699, 1700, 2700, 214,
       177, 829776, 1950, 351500, 457000>>,
      <<"w6x25", 1600, 1501, 46, 32, 4774, 131613, 16452, 19355, 526, 28387, 3790, 5935, 244,
       129, 580608, 1554, 351500, 457000>>,
      <<"w6x20", 1549, 1501, 36, 26, 3839, 103387, 13355, 15677, 518, 22452, 2990, 4677, 241,
       81, 419392, 1513, 351500, 457000>>,
      <<"w6x16", 1524, 1016, 40, 26, 3065, 90000, 11806, 13742, 541, 8387, 1652, 2613, 165, 81,
       96784, 1484, 351500, 457000>>,
      <<"w6x15", 1499, 1501, 28, 23, 2871, 76645, 10226, 11935, 516, 16645, 2219, 3452, 241, 48,
       290304, 1471, 351500, 457000>>,
      <<"w6x12", 1524, 1016, 28, 23, 2290, 66645, 8742, 10194, 538, 6645, 1310, 2065, 170, 48,
       64544, 1496, 351500, 457000>>,
      <<"w6x9", 1499, 1001, 55, 43, 1729, 48387, 6581, 7677, 528, 5000, 1010, 1581, 170, 32,
       38720, 1451, 351500, 457000>>,
      <<"w5x19", 1295, 1278, 109, 69, 3587, 109469, 16700, 19000, 551, 38002, 5900, 9100, 325,
       1315, 1366848, 1252, 351500, 457000>>,
      <<"w5x16", 1273, 1270, 91, 61, 3039, 89074, 14000, 15800, 541, 31259, 4900, 7500, 320,
       799, 1090256, 1234, 351500, 457000>>,
      <<"w4x13", 1057, 1031, 88, 71, 2471, 47034, 8900, 10300, 437, 16067, 3100, 4800, 254, 629,
       375950, 1032, 351500, 457000>>>>

\* the keyword arguments of the construction of a row of PerfilesW
KwargsFila(fila) ==
    [i \in 1..Len(Parametros) |-> <<Parametros[i], <<fila[i + 1], -2>>>>]

\* the objects that the module variables hold, by the name of the variable:
\* nothing is assigned to a variable or to an attribute of its object after
\* the module is loaded
Objetos ==
    [v \in {PerfilesW[i][1] : i \in 1..Len(PerfilesW)} |->
        PropiedadesPerfilW(KwargsFila(PerfilesW[CHOOSE i \in 1..Len(PerfilesW) :
                                                    PerfilesW[i][1] = v]))]

\* the keys of the dict literal perfiles_w, row by row
Claves == [i \in 1..Len(PerfilesW) |-> Texto(PerfilesW[i][1])]

\* the dictionary perfiles_w as the module builds it: it refers under each
\* key to the object of a module variable, and each key is the name of that
\* variable
Catalogo ==
    [clave \in {Claves[i] : i \in 1..Len(Claves)} |->
        PerfilesW[CHOOSE i \in 1..Len(Claves) : Claves[i] = clave][1]]

\* the object that the dictionary catalogo refers to under clave
ObjetoDe(catalogo, clave) == Objetos[catalogo[clave]]

\* the message of the ValueError of obtener_perfil: an f-string around nombre
MensajeNoEncontrado(nombre) ==
    Texto("Perfil '") \o nombre
    \o Texto("' no encontrado. Use listar_perfiles() para ver disponibles.")

obtener_perfil(catalogo, nombre) ==
    Val({IF nombre_lower \in DOMAIN catalogo
         THEN ObjetoDe(catalogo, nombre_lower)
         ELSE [tipo |-> "exc", exc |-> "ValueError",
               mensaje |-> MensajeNoEncontrado(nombre)] :
         nombre_lower \in {lower(nombre)}})

\* a str argument, as opposed to None
Str(s) == [tipo |-> "str", valor |-> s]

listar_perfiles(catalogo, serie) ==
    IF IsNone(serie) THEN sorted(DOMAIN catalogo)
    ELSE Val({sorted({p \in DOMAIN catalogo : startswith(p, serie_lower)}) :
              serie_lower \in {lower(serie.valor)}})

-----------------------------------------------------------------------------
(* The sections and load sets the validator is constructed with             *)

\* number of steps of 100 of the axial load grid, each side of zero
MaxAxial == 1

\* number of steps of 500 (strong axis) and 100 (weak axis) of the moment grids
MaxMomento == 1

\* number of steps of 39 of the lateral-torsional unbraced length grid
MaxTramos == 5

\* number of steps of 50 of the weak-axis effective length grid
MaxLy == 4

\* The literals of a W section with E / Fy = 400 and rts = 2
L0 ==
    [d |-> <<21, 0>>, bf |-> <<10, 0>>, tf |-> <<1, 0>>, tw |-> <<5, -1>>,
     A |-> <<295, -1>>, Ix |-> <<1000, 0>>, Sx |-> <<200, 0>>, Zx |-> <<220, 0>>,
     rx |-> <<5, 0>>, Iy |-> <<100, 0>>, Sy |-> <<20, 0>>, Zy |-> <<30, 0>>,
     ry |-> <<2, 0>>, ho |-> <<20, 0>>, J |-> <<135, -2>>, Cw |-> <<6400, 0>>,
     Fy |-> <<50, 0>>, Fu |-> <<65, 0>>, E |-> <<20000, 0>>]

\* PropiedadesPerfilW(d=21, bf=10, ...) of aisc_w_validator
P0 == Flotantes(L0)

\* L0 with the flange width bf / 10 and the depth d, and the area of that
\* geometry, 2 * bf * tf + (d - 2 * tf) * tw
Seccion(bf, d) ==
    [L0 EXCEPT !.bf = <<bf, -1>>, !.d = <<d, 0>>,
               !.A = <<(2 * bf) + (5 * d) - 10, -1>>]

\* flange ratios 5, 7.6, 11.2, 20, 29.8 and 35 against the limits 7.6, 11.2, 20, 29.8
AnchosPatin == {100, 152, 224, 400, 596, 700}

\* web ratios 38, 114 and 156 against the limits 75.2 and 114
Peraltes == {21, 59, 80}

Secciones == {Flotantes(Seccion(bf, d)) : bf \in AnchosPatin, d \in Peraltes}

\* ultimate stresses: yielding governs, tie, rupture governs
SeccionesTension == {[L0 EXCEPT !.Fu = <<fu, 0>>] : fu \in {65, 60, 55}}

\* The literals of a load set without loads
K0 ==
    [Pu |-> <<0, 0>>, Mux |-> <<0, 0>>, Muy |-> <<0, 0>>, L |-> <<100, 0>>,
     Lx |-> <<100, 0>>, Ly |-> <<100, 0>>, Lt |-> <<78, 0>>, Cb |-> <<1, 0>>]

\* CondicionesCarga(Pu=0, Mux=0, ...)
C0 == Flotantes(K0)

\* the validators ValidadorAISC(PropiedadesPerfilW(...), CondicionesCarga(...)) of the
\* pairs of S, each a section and a load set in literals: <<perfil, cargas>>
Validadores(S) == {<<Flotantes(c[1]), Flotantes(c[2])>> : c \in S}

Axiales == {<<100 * k, 0>> : k \in -MaxAxial .. MaxAxial}

MomentosX == {<<500 * k, 0>> : k \in -MaxMomento .. MaxMomento}

MomentosY == {<<100 * k, 0>> : k \in -MaxMomento .. MaxMomento}

Tramos == {<<39 * k, 0>> : k \in 1 .. MaxTramos} \cup {<<704, -1>>}

LongitudesY == {<<50 * k, 0>> : k \in 1 .. MaxLy}

\* every sign pattern of the loads on a slender-flange and a slender-web
\* section, and every magnitude of them on the compact one
CasosCargas ==
    Validadores(
        {<<p, [K0 EXCEPT !.Pu = <<100 * pu, 0>>, !.Mux = <<500 * mx, 0>>,
                         !.Muy = <<100 * my, 0>>]>> :
            p \in {Seccion(700, 21), Seccion(100, 80)},
            pu \in -1 .. 1, mx \in -1 .. 1, my \in -1 .. 1}
        \cup {<<L0, [K0 EXCEPT !.Pu = pu, !.Mux = mx, !.Muy = my]>> :
                  pu \in Axiales, mx \in MomentosX, my \in MomentosY})

\* tension at, below and above the governing capacity
CasosTension ==
    Validadores(
        {<<p, [K0 EXCEPT !.Pu = pu]>> :
            p \in SeccionesTension,
            pu \in {<<100, 0>>, <<13275, -1>>, <<1328, 0>>, <<1239, 0>>, <<12391, -1>>}})

\* every classification, under compression with biaxial bending
CasosClasificacion ==
    Validadores(
        {<<Seccion(bf, d),
           [K0 EXCEPT !.Pu = <<-100, 0>>, !.Mux = <<500, 0>>, !.Muy = <<my, 0>>]>> :
            bf \in AnchosPatin, d \in Peraltes, my \in {100, 1350, 1351}})

\* the buckling regimes of a section without slender elements
CasosCompresion ==
    Validadores(
        {<<L0, [K0 EXCEPT !.Pu = <<pu, 0>>, !.Lx = <<lx, 0>>, !.Ly = ly]>> :
            pu \in {-100, -2000},
            lx \in {100, 600, 800},
            ly \in LongitudesY \cup {<<18844, -2>>}})

\* columns at and just above the slenderness limit 4.71 * sqrt(E / Fy), which
\* is 94.2 for Fy = 50 and 111.02 for Fy = 36
CasosLimiteEsbeltez ==
    Validadores(
        {<<[L0 EXCEPT !.Fy = <<50, 0>>], [K0 EXCEPT !.Pu = <<-100, 0>>, !.Ly = ly]>> :
            ly \in {<<1884, -1>>, <<190, 0>>}}
        \cup {<<[L0 EXCEPT !.Fy = <<36, 0>>],
                [K0 EXCEPT !.Pu = <<-100, 0>>, !.Ly = <<ly, 0>>]>> :
                  ly \in {222, 224}})

\* long columns with slender elements: the standard-path capacity handed to
\* E7-3 as Fn is small against the local stress Fcl
CasosColumnaLarga ==
    Validadores(
        {<<Seccion(700, d), [K0 EXCEPT !.Pu = <<-100, 0>>, !.Ly = <<ly, 0>>]>> :
            d \in {21, 80},
            ly \in {5000, 8000, 10000}})

\* sections with one property zero (thickness, modulus or area) and a column of
\* zero effective length: the dataclasses accept them
PerfilesDegenerados ==
    {[L0 EXCEPT !.tf = <<0, 0>>], [L0 EXCEPT !.tw = <<0, 0>>],
     [L0 EXCEPT !.Sx = <<0, 0>>], [L0 EXCEPT !.Zy = <<0, 0>>],
     [L0 EXCEPT !.A = <<0, 0>>]}

CasosDegenerados ==
    Validadores(
        {<<p, [K0 EXCEPT !.Pu = <<pu, 0>>, !.Mux = <<500, 0>>, !.Muy = <<100, 0>>]>> :
            p \in PerfilesDegenerados, pu \in {-100, 100}}
        \cup {<<L0, [K0 EXCEPT !.Pu = <<-100, 0>>, !.Lx = <<0, 0>>, !.Ly = <<0, 0>>]>>})

\* validators constructed on a section taken from the catalogue
CasosCatalogo ==
    {<<obtener_perfil(Catalogo, nombre),
       Flotantes([K0 EXCEPT !.Pu = <<pu, 0>>, !.Mux = <<mx, 0>>])>> :
        nombre \in {Texto("w4x13"), Texto("w44x335")},
        pu \in {-100, 0, 100},
        mx \in {0, 500}}

\* the lateral-torsional regimes, with the moment at, below and above the plastic capacity
CasosFlexion ==
    Validadores(
        {<<L0, [K0 EXCEPT !.Mux = <<mx, 0>>, !.Lt = lt, !.Cb = cb]>> :
            mx \in {500, 9900, 9901},
            lt \in Tramos,
            cb \in {<<1, 0>>, <<15, -1>>}}
        \cup {<<L0, [K0 EXCEPT !.Mux = <<500, 0>>, !.Lt = lt, !.Cb = <<3, 0>>]>> :
                  lt \in Tramos})

Casos == CasosCargas \cup CasosTension \cup CasosClasificacion
         \cup CasosCompresion \cup CasosLimiteEsbeltez \cup CasosColumnaLarga
         \cup CasosFlexion
         \cup CasosDegenerados \cup CasosCatalogo

\* previous results handed to the interaction check by a caller: a compression
\* capacity of 2, 5 or 10 times the axial demand and flexure capacities of
\* twice the moment demands, each of them possibly absent
Previos(c) ==
    {[tipo |-> "aggregate", tension |-> None, compresion |-> pc,
      flexion_eje_fuerte |-> fx, flexion_eje_debil |-> fy,
      clasificacion_seccion |-> None, interaccion_flexo_compresion |-> None] :
        pc \in {None} \cup {[tipo |-> "compresion", Pc |-> FMul(D(k, 0), FAbs(c.Pu))] :
                               k \in {2, 5, 10}},
        fx \in {None, [tipo |-> "flexion_eje_fuerte", Mb |-> FMul(D(2, 0), FAbs(c.Mux))]},
        fy \in {None} \cup {[tipo |-> "flexion_eje_debil", Mb |-> FMul(D(k, -1), FAbs(c.Muy))] :
                               k \in {20, 25}}}

-----------------------------------------------------------------------------
(* One ValidadorAISC object: __init__ and its public methods                *)

\* what each method without arguments returns (or raises) on each case: the
\* methods only read self.perfil and self.cargas, so a call is a lookup here
RetornoValidarTodo == [caso \in Casos |-> validar_todo(caso[1], caso[2])]

RetornoClasificarSeccion == [caso \in Casos |-> clasificar_seccion(caso[1])]

RetornoVerificarTension == [caso \in Casos |-> verificar_tension(caso[1], caso[2])]

RetornoVerificarCompresion == [caso \in Casos |-> verificar_compresion(caso[1], caso[2])]

RetornoCompresionEsbeltos == [caso \in Casos |-> _verificar_compresion_esbeltos(caso[1], caso[2])]

RetornoFlexionFuerte == [caso \in Casos |-> verificar_flexion(caso[1], caso[2], "fuerte")]

RetornoFlexionDebil == [caso \in Casos |-> verificar_flexion(caso[1], caso[2], "debil")]

\* ValidadorAISC.__init__
Init ==
    /\ \E caso \in Casos : perfil = caso[1] /\ cargas = caso[2]
    /\ resultados = << >>
    /\ perfiles_w = Catalogo
    /\ op = "__init__"
    /\ argumento = None
    /\ ret = None
    /\ paso = "fuera"
    /\ parcial = << >>
    /\ orden = << >>

\* validar_todo keeping what it returns in self.resultados
ValidarTodoGuardando ==
    /\ op' = "validar_todo"
    /\ argumento' = None
    /\ ret' = RetornoValidarTodo[<<perfil, cargas>>]
    /\ resultados' = ret'
    /\ UNCHANGED <<perfil, cargas, perfiles_w, paso, parcial, orden>>

ValidarTodo ==
    /\ op' = "validar_todo"
    /\ argumento' = None
    /\ ret' = RetornoValidarTodo[<<perfil, cargas>>]
    /\ UNCHANGED <<perfil, cargas, resultados, perfiles_w, paso, parcial, orden>>

ClasificarSeccion ==
    /\ op' = "clasificar_seccion"
    /\ argumento' = None
    /\ ret' = RetornoClasificarSeccion[<<perfil, cargas>>]
    /\ UNCHANGED <<perfil, cargas, resultados, perfiles_w, paso, parcial, orden>>

VerificarTension ==
    /\ op' = "verificar_tension"
    /\ argumento' = None
    /\ ret' = RetornoVerificarTension[<<perfil, cargas>>]
    /\ UNCHANGED <<perfil, cargas, resultados, perfiles_w, paso, parcial, orden>>

VerificarCompresion ==
    /\ op' = "verificar_compresion"
    /\ argumento' = None
    /\ ret' = RetornoVerificarCompresion[<<perfil, cargas>>]
    /\ UNCHANGED <<perfil, cargas, resultados, perfiles_w, paso, parcial, orden>>

\* _verificar_compresion_esbeltos called directly, whatever the classification
VerificarCompresionEsbeltos ==
    /\ op' = "_verificar_compresion_esbeltos"
    /\ argumento' = None
    /\ ret' = RetornoCompresionEsbeltos[<<perfil, cargas>>]
    /\ UNCHANGED <<perfil, cargas, resultados, perfiles_w, paso, parcial, orden>>

VerificarFlexionFuerte ==
    /\ op' = "verificar_flexion_fuerte"
    /\ argumento' = None
    /\ ret' = RetornoFlexionFuerte[<<perfil, cargas>>]
    /\ UNCHANGED <<perfil, cargas, resultados, perfiles_w, paso, parcial, orden>>

VerificarFlexionDebil ==
    /\ op' = "verificar_flexion_debil"
    /\ argumento' = None
    /\ ret' = RetornoFlexionDebil[<<perfil, cargas>>]
    /\ UNCHANGED <<perfil, cargas, resultados, perfiles_w, paso, parcial, orden>>

\* what verificar_interaccion_flexo_compresion returns (or raises) on each
\* load set and each dict handed to it, as pairs <<dict, return>>: the method
\* only reads self.cargas and its argument
RetornoInteraccion ==
    [c \in {caso[2] : caso \in Casos} |->
        {<<previos, verificar_interaccion_flexo_compresion(c, previos)>> :
            previos \in Previos(c)}]

VerificarInteraccion ==
    \E llamada \in RetornoInteraccion[cargas] :
        /\ op' = "verificar_interaccion_flexo_compresion"
        /\ argumento' = llamada[1]
        /\ ret' = llamada[2]
        /\ UNCHANGED <<perfil, cargas, resultados, perfiles_w, paso, parcial, orden>>

\* str.upper on an ASCII character
UpperChar(c) == IF 97 <= c /\ c <= 122 THEN c - 32 ELSE c

\* the spellings of the key clave: each of its letters in lower or upper case
Grafias(clave) ==
    {[i \in 1..Len(clave) |-> IF i \in M THEN UpperChar(clave[i]) ELSE clave[i]] :
        M \in SUBSET {i \in 1..Len(clave) : UpperChar(clave[i]) # clave[i]}}

\* designations that are not catalogued: w4x14, W4X14, w4, W44, w99x1 and ''
NoCatalogados ==
    {Texto("w4x14"), Texto("W4X14"), Texto("w4"), Texto("W44"), Texto("w99x1"), << >>}

\* names with a character outside ASCII, none of them catalogued: w4x13 and
\* W4X13 followed by U+00C9 (E with acute), W4X13 followed by U+03A3 (capital
\* sigma, final there), U+03A3 followed by W4X13, w4x13 with U+FF37 (fullwidth
\* W) for its first letter, w4 followed by U+212A (Kelvin sign) and 13, U+0130
\* (I with dot above) followed by w4x13, and w4x13 followed by U+10400
NoAscii ==
    {Texto("w4x13") \o <<201>>, Texto("W4X13") \o <<201>>, Texto("W4X13") \o <<931>>,
     <<931>> \o Texto("W4X13"), <<65335>> \o Texto("4x13"),
     Texto("w4") \o <<8490>> \o Texto("13"), <<304>> \o Texto("w4x13"),
     Texto("w4x13") \o <<66560>>}

\* the names looked up on a validator: the spellings of w44x335, w5x16 and
\* w4x13, and the designations that are not catalogued
Nombres ==
    UNION {Grafias(clave) : clave \in {Texto("w44x335"), Texto("w5x16"), Texto("w4x13")}}
    \cup NoCatalogados

\* the names looked up: every spelling of every catalogued designation, the
\* designations that are not catalogued and the names outside ASCII
NombresCatalogo ==
    UNION {Grafias(clave) : clave \in DOMAIN Catalogo} \cup NoCatalogados \cup NoAscii

\* series prefixes: W4, w4, W44, w40, W5, w5, W9
Series ==
    {Texto("W4"), Texto("w4"), Texto("W44"), Texto("w40"),
     Texto("W5"), Texto("w5"), Texto("W9")}

\* what the catalogue functions return (or raise) on each argument while the
\* dictionary is as the module built it: they only read perfiles_w
RetornoObtenerPerfil ==
    [nombre \in NombresCatalogo |-> obtener_perfil(Catalogo, nombre)]

RetornoListarPerfiles ==
    [serie \in {None} \cup {Str(x) : x \in Series} |-> listar_perfiles(Catalogo, serie)]

\* obtener_perfil(nombre)
ObtenerPerfil ==
    \E nombre \in Nombres :
        /\ op' = "obtener_perfil"
        /\ argumento' = Str(nombre)
        /\ ret' = Val({IF IsExc(r) THEN r ELSE [tipo |-> "perfil", valor |-> r] :
                       r \in {IF perfiles_w = Catalogo
                              THEN RetornoObtenerPerfil[nombre]
                              ELSE obtener_perfil(perfiles_w, nombre)}})
        /\ UNCHANGED <<perfil, cargas, resultados, perfiles_w, paso, parcial, orden>>

\* listar_perfiles() and listar_perfiles(serie)
ListarPerfiles ==
    \E serie \in {None} \cup {Str(x) : x \in Series} :
        /\ op' = "listar_perfiles"
        /\ argumento' = serie
        /\ ret' = [tipo |-> "list",
                   valor |-> IF perfiles_w = Catalogo
                             THEN RetornoListarPerfiles[serie]
                             ELSE listar_perfiles(perfiles_w, serie)]
        /\ UNCHANGED <<perfil, cargas, resultados, perfiles_w, paso, parcial, orden>>

Next ==
    \/ ValidarTodo
    \/ ClasificarSeccion
    \/ VerificarTension
    \/ VerificarCompresion
    \/ VerificarCompresionEsbeltos
    \/ VerificarFlexionFuerte
    \/ VerificarFlexionDebil
    \/ VerificarInteraccion
    \/ ObtenerPerfil
    \/ ListarPerfiles

Spec == Init /\ [][Next]_vars

-----------------------------------------------------------------------------
(* The module perfiles_aisc by itself: it has been imported and no          *)
(* validator has been constructed.                                          *)

\* the keyword arguments of the constructions of a section: those of w4x13,
\* with an int for a float, without Fy and Fu, without ho, without Cw and ho,
\* without J, Cw and ho, without any, with the keyword E after them, with
\* the keywords Z and E without ho, with the keyword self before them, with
\* self after E and with E after self
ArgumentosPerfil ==
    Val({{k, [k EXCEPT ![7] = <<"Sx", <<89, 0>>>>], SubSeq(k, 1, 16), SubSeq(k, 1, 15),
          SubSeq(k, 1, 14), SubSeq(k, 1, 13), << >>,
          k \o <<<<"E", <<2038902, 0>>>>>>,
          <<<<"Z", <<1, 0>>>>, <<"E", <<2038902, 0>>>>>> \o SubSeq(k, 1, 15),
          <<<<"self", <<1, 0>>>>>> \o k,
          <<<<"E", <<2038902, 0>>>>, <<"self", <<1, 0>>>>>> \o SubSeq(k, 1, 15),
          <<<<"self", <<1, 0>>>>, <<"E", <<2038902, 0>>>>>> \o SubSeq(k, 1, 15)} :
         k \in {KwargsFila(PerfilesW[Len(PerfilesW)])}})

\* what PropiedadesPerfilW returns (or raises) on each of them
RetornoPropiedadesPerfilW ==
    [kwargs \in ArgumentosPerfil |-> PropiedadesPerfilW(kwargs)]

InitCatalogo ==
    /\ perfil = None
    /\ cargas = None
    /\ resultados = None
    /\ perfiles_w = Catalogo
    /\ op = "import"
    /\ argumento = None
    /\ ret = None
    /\ paso = "fuera"
    /\ parcial = << >>
    /\ orden = << >>

\* obtener_perfil(nombre) on any name of NombresCatalogo
ObtenerCatalogado ==
    \E nombre \in NombresCatalogo :
        /\ op' = "obtener_perfil"
        /\ argumento' = Str(nombre)
        /\ ret' = Val({IF IsExc(r) THEN r ELSE [tipo |-> "perfil", valor |-> r] :
                       r \in {IF perfiles_w = Catalogo
                              THEN RetornoObtenerPerfil[nombre]
                              ELSE obtener_perfil(perfiles_w, nombre)}})
        /\ UNCHANGED <<perfil, cargas, resultados, perfiles_w, paso, parcial, orden>>

\* PropiedadesPerfilW(...) of perfiles_aisc
ConstruirPerfil ==
    \E kwargs \in ArgumentosPerfil :
        /\ op' = "PropiedadesPerfilW"
        /\ argumento' = [tipo |-> "kwargs", valor |-> kwargs]
        /\ ret' = Val({IF IsExc(r) THEN r ELSE [tipo |-> "perfil", valor |-> r] :
                       r \in {RetornoPropiedadesPerfilW[kwargs]}})
        /\ UNCHANGED <<perfil, cargas, resultados, perfiles_w, paso, parcial, orden>>

NextCatalogo ==
    \/ ObtenerCatalogado
    \/ ListarPerfiles
    \/ ConstruirPerfil

SpecCatalogo == InitCatalogo /\ [][NextCatalogo]_vars

-----------------------------------------------------------------------------
(* One evaluation of validar_todo, step by step. paso is the position in    *)
(* the method, parcial the local dict resultados under construction, orden  *)
(* the order in which its entries are evaluated: the source's order is      *)
(* OrdenFuente; the other orders permute the entries that call the tension, *)
(* compression and flexure checks.                                          *)

Verificaciones == {"tension", "compresion", "flexion_eje_fuerte", "flexion_eje_debil"}

OrdenFuente ==
    <<"tension", "compresion", "flexion_eje_fuerte", "flexion_eje_debil",
      "clasificacion_seccion", "interaccion_flexo_compresion">>

Ordenes ==
    {<<a, b, c, d, "clasificacion_seccion", "interaccion_flexo_compresion">> :
        a \in Verificaciones, b \in Verificaciones,
        c \in Verificaciones, d \in Verificaciones}
    \ {o \in Seq(Verificaciones \cup {"clasificacion_seccion",
                                       "interaccion_flexo_compresion"}) :
           \E i \in 1..3 : \E j \in (i + 1)..4 : o[i] = o[j]}

\* the validators whose validar_todo is followed step by step
CasosPasos == CasosCargas \cup CasosDegenerados

\* the value of the entry slot of the dict literal of validar_todo
ValorSlot(slot) ==
    IF slot = "tension"
    THEN IF FGt(cargas.Pu, Zero)
         THEN RetornoVerificarTension[<<perfil, cargas>>] ELSE None
    ELSE IF slot = "compresion"
    THEN IF FLt(cargas.Pu, Zero)
         THEN RetornoVerificarCompresion[<<perfil, cargas>>] ELSE None
    ELSE IF slot = "flexion_eje_fuerte"
    THEN IF FGt(FAbs(cargas.Mux), Zero)
         THEN RetornoFlexionFuerte[<<perfil, cargas>>] ELSE None
    ELSE IF slot = "flexion_eje_debil"
    THEN IF FGt(FAbs(cargas.Muy), Zero)
         THEN RetornoFlexionDebil[<<perfil, cargas>>] ELSE None
    ELSE IF slot = "clasificacion_seccion"
    THEN RetornoClasificarSeccion[<<perfil, cargas>>]
    ELSE None

\* validar_todo has been entered on a validator just constructed
InitPasos ==
    /\ \E caso \in CasosPasos : perfil = caso[1] /\ cargas = caso[2]
    /\ resultados = << >>
    /\ perfiles_w = Catalogo
    /\ op = "__init__"
    /\ argumento = None
    /\ ret = None
    /\ paso = "dict"
    /\ parcial = [tipo |-> "aggregate"]
    /\ orden \in Ordenes

\* the next entry of the dict literal: its check runs, or None is stored; an
\* exception of the check leaves validar_todo
EvaluarSlot ==
    /\ paso = "dict"
    /\ \E slot \in {orden[Cardinality(DOMAIN parcial)]} :
         \E valor \in {ValorSlot(slot)} :
           IF IsExc(valor)
           THEN /\ op' = "validar_todo"
                /\ ret' = valor
                /\ paso' = "fuera"
                /\ parcial' = parcial
           ELSE /\ parcial' = parcial @@ (slot :> valor)
                /\ paso' = IF Cardinality(DOMAIN parcial) = Len(orden)
                           THEN "interaccion" ELSE "dict"
                /\ UNCHANGED <<op, ret>>
    /\ UNCHANGED <<perfil, cargas, resultados, perfiles_w, argumento, orden>>

\* PasoInteraccion handing the interaction check a dict whose compression
\* entry is still to be evaluated
PasoInteraccionSinCompresion ==
    /\ paso = "interaccion"
    /\ parcial' = [parcial EXCEPT !.interaccion_flexo_compresion =
                       verificar_interaccion_flexo_compresion(
                           cargas, [parcial EXCEPT !.compresion = None])]
    /\ paso' = "retorno"
    /\ UNCHANGED <<perfil, cargas, resultados, perfiles_w, op, argumento, ret, orden>>

\* the statement after the dict literal: the interaction check on the dict,
\* when Pu < 0 and a moment is applied
PasoInteraccion ==
    /\ paso = "interaccion"
    /\ IF FLt(cargas.Pu, Zero)
          /\ (FGt(FAbs(cargas.Mux), Zero) \/ FGt(FAbs(cargas.Muy), Zero))
       THEN \E inter \in {verificar_interaccion_flexo_compresion(cargas, parcial)} :
            IF IsExc(inter)
            THEN /\ op' = "validar_todo"
                 /\ ret' = inter
                 /\ paso' = "fuera"
                 /\ parcial' = parcial
            ELSE /\ parcial' = [parcial EXCEPT !.interaccion_flexo_compresion = inter]
                 /\ paso' = "retorno"
                 /\ UNCHANGED <<op, ret>>
       ELSE /\ paso' = "retorno"
            /\ UNCHANGED <<op, ret, parcial>>
    /\ UNCHANGED <<perfil, cargas, resultados, perfiles_w, argumento, orden>>

\* return resultados
Retornar ==
    /\ paso = "retorno"
    /\ op' = "validar_todo"
    /\ ret' = parcial
    /\ paso' = "fuera"
    /\ UNCHANGED <<perfil, cargas, resultados, perfiles_w, argumento, parcial, orden>>

NextPasos ==
    \/ EvaluarSlot
    \/ PasoInteraccion
    \/ Retornar

SpecPasos == InitPasos /\ [][NextPasos]_vars

-----------------------------------------------------------------------------
(* Properties                                                               *)

\* the last call was of the method nombre and it returned (it did not raise)
Devuelve(nombre) == op = nombre /\ ~IsExc(ret)

Presente(slot) == ~IsNone(slot)

\* the result r carries a combined interaction value (it is not the ERROR record)
ConValor(r) == r.tipo = "interaccion" /\ "interaccion" \in DOMAIN r

\* C1: validar_todo returns an aggregate whose slots follow the loads: tension
\* iff Pu > 0, compresion iff Pu < 0, flexion_eje_fuerte iff Mux # 0,
\* flexion_eje_debil iff Muy # 0, clasificacion_seccion always, and
\* interaccion_flexo_compresion iff Pu < 0 and a moment is applied; an absent
\* slot is None.  (Fails: with Pu < 0 and one moment zero the call raises.)
C1_SlotsFollowLoads ==
    op = "validar_todo" =>
        /\ ret.tipo = "aggregate"
        /\ Presente(ret.tension) <=> FGt(cargas.Pu, Zero)
        /\ Presente(ret.compresion) <=> FLt(cargas.Pu, Zero)
        /\ Presente(ret.flexion_eje_fuerte) <=> (~IsZero(cargas.Mux))
        /\ Presente(ret.flexion_eje_debil) <=> (~IsZero(cargas.Muy))
        /\ Presente(ret.clasificacion_seccion)
        /\ Presente(ret.interaccion_flexo_compresion)
               <=> (FLt(cargas.Pu, Zero) /\ (~IsZero(cargas.Mux) \/ ~IsZero(cargas.Muy)))

\* the verdict of the check result r for the demand and the design capacity
VeredictoDe(r, demanda, capacidad) ==
    /\ r.RDC = FDiv(FAbs(demanda), capacidad)
    /\ r.estado = IF FLe(r.RDC, One) THEN "PASA" ELSE "FALLA"

VeredictoInteraccion(r) ==
    ConValor(r) => r.estado = IF FLe(r.interaccion, One) THEN "PASA" ELSE "FALLA"

\* C2: in every check result (tension, compression by either path, strong and
\* weak axis flexure, called directly or as a slot of validar_todo) RDC is
\* |demand| / design capacity and estado is 'PASA' iff RDC <= 1.0, else
\* 'FALLA'; the interaction result is 'PASA' iff its combined value <= 1.0.
C2_VerdictFollowsRatio ==
    /\ Devuelve("verificar_tension") => VeredictoDe(ret, cargas.Pu, ret.Pt_gobernante)
    /\ Devuelve("verificar_compresion") => VeredictoDe(ret, cargas.Pu, ret.Pc)
    /\ Devuelve("verificar_flexion_fuerte") => VeredictoDe(ret, cargas.Mux, ret.Mb)
    /\ Devuelve("verificar_flexion_debil") => VeredictoDe(ret, cargas.Muy, ret.Mb)
    /\ Devuelve("verificar_interaccion_flexo_compresion") => VeredictoInteraccion(ret)
    /\ Devuelve("validar_todo") =>
        /\ Presente(ret.tension) =>
               VeredictoDe(ret.tension, cargas.Pu, ret.tension.Pt_gobernante)
        /\ Presente(ret.compresion) =>
               VeredictoDe(ret.compresion, cargas.Pu, ret.compresion.Pc)
        /\ Presente(ret.flexion_eje_fuerte) =>
               VeredictoDe(ret.flexion_eje_fuerte, cargas.Mux, ret.flexion_eje_fuerte.Mb)
        /\ Presente(ret.flexion_eje_debil) =>
               VeredictoDe(ret.flexion_eje_debil, cargas.Muy, ret.flexion_eje_debil.Mb)
        /\ Presente(ret.interaccion_flexo_compresion) =>
               VeredictoInteraccion(ret.interaccion_flexo_compresion)

\* C2 witness: a tension check whose ratio is exactly 1.0 has passed
C2_RatioOnePasses ==
    /\ Devuelve("verificar_tension")
    /\ FAbs(cargas.Pu) = ret.Pt_gobernante
    /\ ret.RDC = One
    /\ ret.estado = "PASA"

\* the rank of a class: a more slender class has a larger rank
Rango(clase) == IF clase = "compacta" THEN 0 ELSE IF clase = "no_compacta" THEN 1 ELSE 2

\* the class of the ratio lam against the limits lp <= lr is the band of lam
EnSuBanda(clase, lam, lp, lr) ==
    /\ clase \in {"compacta", "no_compacta", "esbelta"}
    /\ clase = "compacta" <=> FLe(lam, lp)
    /\ clase = "no_compacta" <=> (FGt(lam, lp) /\ FLe(lam, lr))
    /\ clase = "esbelta" <=> FGt(lam, lr)

\* the flange and web ratios of the sections, and their limits
Esbelteces ==
    UNION {{r.lambda_f, r.lambda_w, r.lambda_p_f_comp, r.lambda_r_f_comp,
            r.lambda_p_f_flex, r.lambda_r_f_flex, r.lambda_p_w_flex, r.lambda_r_w_flex} :
           r \in {clasificar_seccion(p).relaciones : p \in Secciones}}

\* _clasificar_elemento never gives a less slender class to a larger ratio
Monotona(lp, lr) ==
    \A a, b \in Esbelteces :
        FLe(a, b) => Rango(_clasificar_elemento(a, lp, lr))
                         <= Rango(_clasificar_elemento(b, lp, lr))

\* C3: each class reported by clasificar_seccion is the band of its ratio
\* against its limits lambda_p <= lambda_r (compacta iff lambda <= lambda_p,
\* no_compacta iff lambda_p < lambda <= lambda_r, esbelta iff lambda > lambda_r,
\* a ratio equal to a limit falling in the lower band), and
\* _clasificar_elemento is monotone in the ratio.
C3_ClassIsBand ==
    Devuelve("clasificar_seccion") =>
        LET rel == ret.relaciones
        IN  /\ EnSuBanda(ret.patin_compresion, rel.lambda_f,
                         rel.lambda_p_f_comp, rel.lambda_r_f_comp)
            /\ EnSuBanda(ret.patin_flexion, rel.lambda_f,
                         rel.lambda_p_f_flex, rel.lambda_r_f_flex)
            /\ EnSuBanda(ret.alma_flexion, rel.lambda_w,
                         rel.lambda_p_w_flex, rel.lambda_r_w_flex)
            /\ \A a \in Esbelteces :
                   /\ EnSuBanda(_clasificar_elemento(a, rel.lambda_p_f_flex,
                                                     rel.lambda_r_f_flex),
                                a, rel.lambda_p_f_flex, rel.lambda_r_f_flex)
                   /\ EnSuBanda(_clasificar_elemento(a, rel.lambda_p_w_flex,
                                                     rel.lambda_r_w_flex),
                                a, rel.lambda_p_w_flex, rel.lambda_r_w_flex)
            /\ Monotona(rel.lambda_p_f_comp, rel.lambda_r_f_comp)
            /\ Monotona(rel.lambda_p_f_flex, rel.lambda_r_f_flex)
            /\ Monotona(rel.lambda_p_w_flex, rel.lambda_r_w_flex)

\* C3 witness: a flange ratio exactly equal to the upper flexure limit has been
\* classified in the lower band, and the same ratio, equal to no compression
\* limit, is compact in compression
C3_RatioAtLimit ==
    /\ Devuelve("clasificar_seccion")
    /\ ret.relaciones.lambda_f = ret.relaciones.lambda_r_f_flex
    /\ ret.patin_flexion = "no_compacta"
    /\ ret.alma_flexion = "esbelta"

\* C4: verificar_tension reports Pt_gobernante = min(0.9 * Fy * A, 0.75 * Fu * A),
\* which is one of the two factored values and not above either, and
\* modo_gobernante names the limit state whose factored value it is:
\* 'fluencia' when yielding is strictly lower, 'ruptura' otherwise (tie included).
C4_GoverningTension ==
    Devuelve("verificar_tension") =>
        /\ ret.Pt_fluencia = FMul(D(9, -1), FMul(perfil.Fy, perfil.A))
        /\ ret.Pt_ruptura = FMul(D(75, -2), FMul(perfil.Fu, perfil.A))
        /\ ret.Pt_gobernante \in {ret.Pt_fluencia, ret.Pt_ruptura}
        /\ FLe(ret.Pt_gobernante, ret.Pt_fluencia)
        /\ FLe(ret.Pt_gobernante, ret.Pt_ruptura)
        /\ ret.modo_gobernante =
               IF FLt(ret.Pt_fluencia, ret.Pt_ruptura) THEN "fluencia" ELSE "ruptura"
        /\ ret.modo_gobernante = "fluencia" => ret.Pt_gobernante = ret.Pt_fluencia
        /\ ret.modo_gobernante = "ruptura" => ret.Pt_gobernante = ret.Pt_ruptura

\* C4 witness: the two factored capacities tie and rupture has been reported
C4_TieIsRupture ==
    /\ Devuelve("verificar_tension")
    /\ ret.Pt_fluencia = ret.Pt_ruptura
    /\ ret.modo_gobernante = "ruptura"

\* the section has a slender compression flange or a slender web
ElementoEsbelto(p) ==
    \/ clasificar_seccion(p).patin_compresion = "esbelta"
    \/ clasificar_seccion(p).alma_flexion = "esbelta"

\* C5: verificar_compresion returns the slender-element result (tagged
\* tipo_analisis = 'elementos_esbeltos') iff the compression flange or the web
\* is 'esbelta', and the standard result otherwise; the class of the flange
\* under flexure does not enter.
C5_SlenderDispatch ==
    Devuelve("verificar_compresion") =>
        /\ ("tipo_analisis" \in DOMAIN ret) <=> ElementoEsbelto(perfil)
        /\ ElementoEsbelto(perfil) =>
               /\ ret.tipo_analisis = "elementos_esbeltos"
               /\ ret = _verificar_compresion_esbeltos(perfil, cargas)
        /\ ~ElementoEsbelto(perfil) =>
               ret = _verificar_compresion_no_esbeltos(perfil, cargas)

\* C5 witness: a section whose flange is slender under flexure only has been
\* checked by the standard path
C5_FlexureFlangeAlone ==
    /\ Devuelve("verificar_compresion")
    /\ clasificar_seccion(perfil).patin_flexion = "esbelta"
    /\ ~ElementoEsbelto(perfil)
    /\ "tipo_analisis" \notin DOMAIN ret

\* C6: in the standard compression path KL/r = max(Lx / rx, Ly / ry),
\* Fe = pi^2 * E / (KL/r)^2, the regime is 'inelastico' with
\* Fcr = 0.658^(Fy / Fe) * Fy and E3-2 iff KL/r <= 4.71 * sqrt(E / Fy) or
\* Fy / Fe <= 2.25, else 'elastico' with Fcr = 0.877 * Fe and E3-3;
\* Pn = Fcr * A and Pc = 0.9 * Pn.
C6_StandardCompression ==
    (Devuelve("verificar_compresion") /\ "tipo_analisis" \notin DOMAIN ret) =>
        LET KL_r == FMax(FDiv(cargas.Lx, perfil.rx), FDiv(cargas.Ly, perfil.ry))
            Fe == FDiv(FMul(Sq(Pi), perfil.E), Sq(KL_r))
            inelastico == \/ FLe(KL_r, FMul(D(471, -2), FSqrt(FDiv(perfil.E, perfil.Fy))))
                          \/ FLe(FDiv(perfil.Fy, Fe), D(225, -2))
        IN  /\ ret.KL_r_x = FDiv(cargas.Lx, perfil.rx)
            /\ ret.KL_r_y = FDiv(cargas.Ly, perfil.ry)
            /\ ret.KL_r_gobernante = KL_r
            /\ ret.Fe = Fe
            /\ ret.modo_pandeo = IF inelastico THEN "inelastico" ELSE "elastico"
            /\ ret.Fcr = IF inelastico
                         THEN FMul(Pow0658(FDiv(perfil.Fy, Fe)), perfil.Fy)
                         ELSE FMul(D(877, -3), Fe)
            /\ ret.ecuaciones_ref =
                   <<"E3-1", IF inelastico THEN "E3-2" ELSE "E3-3", "E3-4">>
            /\ ret.Pn = FMul(ret.Fcr, perfil.A)
            /\ ret.Pc = FMul(D(9, -1), ret.Pn)

\* C6 witness: a column above the slenderness limit 4.71 * sqrt(E / Fy) whose
\* Fy / Fe is still <= 2.25 has been checked in the inelastic regime
C6_InelasticByStressRatio ==
    /\ Devuelve("verificar_compresion")
    /\ "tipo_analisis" \notin DOMAIN ret
    /\ FGt(ret.KL_r_gobernante, FMul(D(471, -2), FSqrt(FDiv(perfil.E, perfil.Fy))))
    /\ FLe(ret.lambda_c, D(225, -2))
    /\ ret.modo_pandeo = "inelastico"

\* C7: strong-axis flexure takes its regime from Lt against Lp and Lr:
\* Lt <= Lp gives 'fluencia' with Mn = Fy * Zx (F2-1); Lp < Lt <= Lr, Lt = Lr
\* included, gives 'pandeo_LT_inelastico' with
\* Mn = Cb * (Mp - (Mp - 0.7 * Fy * Sx) * (Lt - Lp) / (Lr - Lp)) (F2-2);
\* Lt > Lr gives 'pandeo_LT_elastico' (F2-3); Mb = 0.9 * Mn.
\* (Fails: at Lt = Lr the code takes the elastic branch.)
C7_RegimeByUnbracedLength ==
    Devuelve("verificar_flexion_fuerte") =>
        LET Mp == FMul(perfil.Fy, perfil.Zx)
            regimen == IF FLe(cargas.Lt, ret.Lp) THEN "fluencia"
                       ELSE IF FLe(cargas.Lt, ret.Lr) THEN "pandeo_LT_inelastico"
                       ELSE "pandeo_LT_elastico"
        IN  /\ ret.estado_limite = regimen
            /\ ret.ecuaciones_ref[1] = IF regimen = "fluencia" THEN "F2-1"
                                       ELSE IF regimen = "pandeo_LT_inelastico" THEN "F2-2"
                                       ELSE "F2-3"
            /\ regimen = "fluencia" => ret.Mn = Mp
            /\ regimen = "pandeo_LT_inelastico" =>
                   ret.Mn = FMul(cargas.Cb,
                                 FSub(Mp, FDiv(FMul(FSub(Mp, FMul(FMul(D(7, -1), perfil.Fy),
                                                                  perfil.Sx)),
                                                    FSub(cargas.Lt, ret.Lp)),
                                               FSub(ret.Lr, ret.Lp))))
            /\ ret.Mb = FMul(D(9, -1), ret.Mn)

\* C8: weak-axis flexure takes its formula from the class of the flange under
\* flexure: 'compacta' gives Mn = Fy * Zy (F6-1); 'no_compacta' gives
\* Mn = Mp - (Mp - 0.70 * Sy * Sy) * (lambda_f - lambda_pf) / (lambda_rf - lambda_pf)
\* (F6-2); 'esbelta' gives Mn = Fcr * Sy with Fcr = 0.70 * E / (bf / tf)^2
\* (F6-3); Mb = 0.9 * Mn and RDC = |Muy| / Mb.
C8_WeakAxisFormula ==
    Devuelve("verificar_flexion_debil") =>
        LET cl == clasificar_seccion(perfil)
            rel == cl.relaciones
            Mp == FMul(perfil.Fy, perfil.Zy)
        IN  /\ ret.clasificacion = cl.patin_flexion
            /\ cl.patin_flexion = "compacta" =>
                   /\ ret.Mn = Mp
                   /\ ret.estado_limite = "fluencia"
                   /\ ret.ecuaciones_ref = <<"F6-1">>
            /\ cl.patin_flexion = "no_compacta" =>
                   /\ ret.Mn = FSub(Mp, FMul(FSub(Mp, FMul(FMul(D(70, -2), perfil.Sy),
                                                           perfil.Sy)),
                                             FDiv(FSub(rel.lambda_f, rel.lambda_p_f_flex),
                                                  FSub(rel.lambda_r_f_flex,
                                                       rel.lambda_p_f_flex))))
                   /\ ret.estado_limite = "no_compacta"
                   /\ ret.ecuaciones_ref = <<"F6-2">>
            /\ cl.patin_flexion = "esbelta" =>
                   /\ ret.Mn = FMul(FDiv(FMul(D(70, -2), perfil.E),
                                         Sq(FDiv(perfil.bf, perfil.tf))),
                                    perfil.Sy)
                   /\ ret.estado_limite = "esbelta"
                   /\ ret.ecuaciones_ref = <<"F6-3">>
            /\ ret.Mb = FMul(D(9, -1), ret.Mn)
            /\ ret.RDC = FDiv(FAbs(cargas.Muy), ret.Mb)

\* C8 witness: a noncompact flange strictly between its limits has been checked
\* with F6-2, below the plastic moment
C8_NoncompactFlange ==
    /\ Devuelve("verificar_flexion_debil")
    /\ ret.clasificacion = "no_compacta"
    /\ ret.ecuaciones_ref = <<"F6-2">>
    /\ FLt(ret.Mn, FMul(perfil.Fy, perfil.Zy))

\* the combined value and the equation of chapter H for the result r, from the
\* demands and the capacities Pc, Mcx, Mcy handed to the check
SegunH1(r, Pc, Mcx, Mcy) ==
    LET Pr == FAbs(cargas.Pu)
        flexion == FAdd(FDiv(FAbs(cargas.Mux), Mcx), FDiv(FAbs(cargas.Muy), Mcy))
    IN  /\ FGe(FDiv(Pr, Pc), D(2, -1)) =>
               /\ r.ecuacion_aplicada = "H1-1a"
               /\ r.interaccion = FAdd(FDiv(Pr, Pc), FMul(FDiv(D(8, 0), D(9, 0)), flexion))
        /\ FLt(FDiv(Pr, Pc), D(2, -1)) =>
               /\ r.ecuacion_aplicada = "H1-1b"
               /\ r.interaccion = FAdd(FDiv(Pr, FMul(D(2, 0), Pc)), flexion)
        /\ r.ecuaciones_ref = <<r.ecuacion_aplicada>>

\* C9: the interaction check uses H1-1a,
\* combined = Pr / Pc + (8/9) * (Mrx / Mcx + Mry / Mcy), iff Pr / Pc >= 0.2
\* (0.2 itself included), and H1-1b,
\* combined = Pr / (2 * Pc) + (Mrx / Mcx + Mry / Mcy), otherwise;
\* ecuacion_aplicada names the equation used.
C9_EquationByAxialRatio ==
    /\ (Devuelve("verificar_interaccion_flexo_compresion") /\ ConValor(ret)) =>
           SegunH1(ret, argumento.compresion.Pc, argumento.flexion_eje_fuerte.Mb,
                   argumento.flexion_eje_debil.Mb)
    /\ (Devuelve("validar_todo") /\ Presente(ret.interaccion_flexo_compresion)) =>
           SegunH1(ret.interaccion_flexo_compresion, ret.compresion.Pc,
                   ret.flexion_eje_fuerte.Mb, ret.flexion_eje_debil.Mb)

\* C9 witness: an interaction check with Pr / Pc exactly 0.2 has used H1-1a
C9_RatioAtThreshold ==
    /\ Devuelve("verificar_interaccion_flexo_compresion")
    /\ ConValor(ret)
    /\ FDiv(FAbs(cargas.Pu), argumento.compresion.Pc) = D(2, -1)
    /\ ret.ecuacion_aplicada = "H1-1a"

\* C10: an interaction check handed a compression result and no flexure result
\* for one axis returns a combined value and a verdict, the absent axis
\* contributing 0.0; validar_todo with Pu < 0 and exactly one of Mux, Muy
\* nonzero returns an aggregate with a numeric interaction result.
\* (Fails: the absent axis has capacity 0 and the division by it raises.)
C10_AbsentAxisContributesZero ==
    /\ (/\ op = "verificar_interaccion_flexo_compresion"
        /\ Presente(argumento.compresion)
        /\ ~IsZero(argumento.compresion.Pc)
        /\ IsNone(argumento.flexion_eje_debil)
        /\ Presente(argumento.flexion_eje_fuerte)
        /\ ~IsZero(argumento.flexion_eje_fuerte.Mb)
        /\ IsZero(cargas.Muy)) =>
           /\ ~IsExc(ret)
           /\ ConValor(ret)
           /\ ret.estado \in {"PASA", "FALLA"}
    /\ (/\ op = "validar_todo"
        /\ FLt(cargas.Pu, Zero)
        /\ (IsZero(cargas.Mux)) # (IsZero(cargas.Muy))) =>
           /\ ret.tipo = "aggregate"
           /\ ConValor(ret.interaccion_flexo_compresion)

\* C11: the interaction check handed previous results whose 'compresion' slot
\* is None does not raise: it returns estado = 'ERROR' with a note and no
\* combined value, whatever the flexure slots and the loads are.
C11_MissingCompressionIsError ==
    (op = "verificar_interaccion_flexo_compresion" /\ IsNone(argumento.compresion)) =>
        /\ ~IsExc(ret)
        /\ ret.estado = "ERROR"
        /\ "nota" \in DOMAIN ret
        /\ ret.nota = "Se requiere verificación de compresión"
        /\ "interaccion" \notin DOMAIN ret

\* C11 witness: the error outcome has been returned to a caller that handed
\* both flexure results and applied an axial load and both moments
C11_ErrorWithFlexureResults ==
    /\ op = "verificar_interaccion_flexo_compresion"
    /\ IsNone(argumento.compresion)
    /\ Presente(argumento.flexion_eje_fuerte)
    /\ Presente(argumento.flexion_eje_debil)
    /\ ~IsZero(cargas.Pu) /\ ~IsZero(cargas.Mux) /\ ~IsZero(cargas.Muy)
    /\ ret.estado = "ERROR"

\* every property of the section and every length and Cb of the loads is > 0
BienFormado(p, c) ==
    /\ "E" \in DOMAIN p
    /\ \A campo \in DOMAIN p : FGt(p[campo], Zero)
    /\ FGt(c.L, Zero) /\ FGt(c.Lx, Zero) /\ FGt(c.Ly, Zero)
    /\ FGt(c.Lt, Zero) /\ FGt(c.Cb, Zero)

\* C12: for a section with strictly positive properties and loads with
\* strictly positive lengths and Cb, validar_todo completes and every check it
\* ran has a strictly positive design capacity (Pt, Pc, Mb) and, for the
\* interaction, a combined value; the slender-element compression path included.
\* (Fails: the slender path takes the square root of a negative Fy_mod / Fe
\* when its effective area is negative.)
C12_ChecksAreTotal ==
    (op = "validar_todo" /\ BienFormado(perfil, cargas)) =>
        /\ ret.tipo = "aggregate"
        /\ Presente(ret.tension) => FGt(ret.tension.Pt_gobernante, Zero)
        /\ Presente(ret.compresion) => FGt(ret.compresion.Pc, Zero)
        /\ Presente(ret.flexion_eje_fuerte) => FGt(ret.flexion_eje_fuerte.Mb, Zero)
        /\ Presente(ret.flexion_eje_debil) => FGt(ret.flexion_eje_debil.Mb, Zero)
        /\ Presente(ret.interaccion_flexo_compresion) =>
               ConValor(ret.interaccion_flexo_compresion)

\* the result r is an explicit error outcome, not a raised exception
ErrorExplicito(r) == ~IsExc(r) /\ "estado" \in DOMAIN r /\ r.estado = "ERROR"

\* C13: a division by zero inside a check is reported as an explicit error
\* outcome: classification with zero flange or web thickness, tension and
\* compression with zero design capacity (A = 0), compression with zero
\* slenderness (Lx = Ly = 0), strong-axis flexure with zero section modulus and
\* weak-axis flexure with zero design moment (Zy = 0) each return an error
\* result and do not raise.
\* (Fails: none of the divisions is guarded; each call raises ZeroDivisionError.)
C13_ZeroDivisionIsReported ==
    /\ (op = "clasificar_seccion" /\ (IsZero(perfil.tf) \/ IsZero(perfil.tw))) =>
           ErrorExplicito(ret)
    /\ (op = "verificar_tension" /\ IsZero(perfil.A)) => ErrorExplicito(ret)
    /\ (op = "verificar_compresion"
            /\ (IsZero(perfil.A) \/ (IsZero(cargas.Lx) /\ IsZero(cargas.Ly)))) =>
           ErrorExplicito(ret)
    /\ (op = "verificar_flexion_fuerte" /\ IsZero(perfil.Sx)) => ErrorExplicito(ret)
    /\ (op = "verificar_flexion_debil" /\ IsZero(perfil.Zy)) => ErrorExplicito(ret)

\* a and b are the same str up to the case of their ASCII letters
MismoSinCaja(a, b) ==
    Len(a) = Len(b) /\ \A i \in 1..Len(a) : UpperChar(a[i]) = UpperChar(b[i])

\* the str s occurs in the str texto
Contiene(texto, s) ==
    \E i \in 0..(Len(texto) - Len(s)) : SubSeq(texto, i + 1, i + Len(s)) = s

\* C14: obtener_perfil(nombre) returns the catalogue entry of a designation
\* for each of its upper/lower-case spellings; for a designation that is not
\* catalogued it raises ValueError with a message containing nombre exactly as
\* supplied; the catalogue is unchanged in both cases.
C14_LookupIgnoresCase ==
    op = "obtener_perfil" =>
        /\ \A clave \in DOMAIN Catalogo :
               MismoSinCaja(clave, argumento.valor) =>
                   /\ ~IsExc(ret)
                   /\ ret.valor = ObjetoDe(Catalogo, clave)
        /\ (~\E clave \in DOMAIN Catalogo : MismoSinCaja(clave, argumento.valor)) =>
               /\ IsExc(ret)
               /\ ret.exc = "ValueError"
               /\ Contiene(ret.mensaje, argumento.valor)
        /\ perfiles_w = Catalogo

\* C14 witness: the upper-case spelling W8X10 has returned the entry w8x10
C14_UpperCaseFound ==
    /\ op = "obtener_perfil"
    /\ argumento.valor = Texto("W8X10")
    /\ ~IsExc(ret)
    /\ ret.valor = Objetos["w8x10"]

\* the series of a designation: its characters before the first 'x'
SerieDe(p) == SubSeq(p, 1, (CHOOSE i \in 1..Len(p) : p[i] = Ord("x") /\
                                \A j \in 1..(i - 1) : p[j] # Ord("x")) - 1)

\* the list v is in strictly ascending order
Ascendente(v) == \A i, j \in 1..Len(v) : i < j => StrLt(v[i], v[j])

\* C15: listar_perfiles() returns every catalogued designation exactly once in
\* ascending order; listar_perfiles(serie) returns in ascending order exactly
\* the designations of that series, whatever the letter case of serie: 'W4'
\* gives the W4 sections only, none of W40 or W44.
\* (Fails: the filter is a prefix test, so 'W4' also lists W40 and W44.)
C15_ListBySeries ==
    op = "listar_perfiles" =>
        /\ Ascendente(ret.valor)
        /\ IsNone(argumento) =>
               {ret.valor[i] : i \in 1..Len(ret.valor)} = DOMAIN perfiles_w
        /\ ~IsNone(argumento) =>
               {ret.valor[i] : i \in 1..Len(ret.valor)} =
                   {p \in DOMAIN perfiles_w : MismoSinCaja(SerieDe(p), argumento.valor)}

\* the attributes of the section that the checks of ValidadorAISC read
AtributosLeidos ==
    {"d", "bf", "tf", "tw", "A", "Sx", "Zx", "rx", "Iy", "Sy", "Zy", "ry",
     "ho", "J", "Cw", "Fy", "Fu", "E"}

\* C16: every section returned by obtener_perfil carries every property the
\* checks read, E included, and validar_todo on a validator built on a
\* catalogued section does not fail on a missing attribute.
\* (Fails: the catalogue class has no attribute E.)
C16_CatalogueSectionEvaluates ==
    /\ (op = "obtener_perfil" /\ ~IsExc(ret)) =>
           AtributosLeidos \subseteq DOMAIN ret.valor
    /\ (op = "validar_todo" /\ \E clave \in DOMAIN Catalogo : perfil = ObjetoDe(Catalogo, clave)) =>
           ~(IsExc(ret) /\ ret.exc = "AttributeError")

\* C17: every call on a ValidadorAISC leaves perfil and cargas unchanged and
\* does not write resultados, which stays the empty dictionary of __init__;
\* a call repeated with the same argument returns a result equal to the one
\* before, whatever calls came first.
C17_ChecksArePure ==
    [][/\ perfil' = perfil
       /\ cargas' = cargas
       /\ resultados' = resultados
       /\ resultados' = << >>
       /\ (op' = op /\ argumento' = argumento) => ret' = ret]_vars

\* C17 witness: validar_todo has run all of its checks on a beam-column and the
\* attribute resultados is still empty
C17_AggregateNotCached ==
    /\ Devuelve("validar_todo")
    /\ Presente(ret.compresion)
    /\ Presente(ret.interaccion_flexo_compresion)
    /\ resultados = << >>

\* a and b agree to one part in a million
Cerca(a, b) ==
    FLe(FAbs(FSub(a, b)), FMul(D(1, -6), FMax(FAbs(a), FAbs(b))))

\* C18: the slender-element path run on a section without slender elements
\* (Ae = A, Fy_mod = Fy) selects the same buckling regime as the standard path
\* and returns the same Fcr, Pn, Pc and RDC, at every slenderness KL/r.
\* (Fails: the slender path compares sqrt(Fy_mod / Fe) with 2.25.)
C18_SlenderPathReducesToStandard ==
    (/\ Devuelve("_verificar_compresion_esbeltos")
     /\ ~ElementoEsbelto(perfil)
     /\ ret.Ae = perfil.A /\ ret.Fy_mod = perfil.Fy) =>
        /\ ~IsExc(RetornoVerificarCompresion[<<perfil, cargas>>])
        /\ ret.modo_pandeo = RetornoVerificarCompresion[<<perfil, cargas>>].modo_pandeo
        /\ Cerca(ret.Fcr, RetornoVerificarCompresion[<<perfil, cargas>>].Fcr)
        /\ Cerca(ret.Pn, RetornoVerificarCompresion[<<perfil, cargas>>].Pn)
        /\ Cerca(ret.Pc, RetornoVerificarCompresion[<<perfil, cargas>>].Pc)
        /\ Cerca(ret.RDC, RetornoVerificarCompresion[<<perfil, cargas>>].RDC)

\* the list of the values of a result of the slender path that C19 is about
EnRutaEsbelta ==
    /\ op \in {"verificar_compresion", "_verificar_compresion_esbeltos"}
    /\ ~IsExc(ret)
    /\ "tipo_analisis" \in DOMAIN ret

\* C19: in the slender-element path Ae is
\* A - 2 * (bf - be_patin) * tf - (d - 2 * tf - be_alma) * tw, clamped so that
\* Ae <= A; an element that is not classified slender keeps its full width;
\* Fy_mod = Fy * Ae / A and Pn = Fcr * Ae.
C19_EffectiveArea ==
    EnRutaEsbelta =>
        /\ ret.Ae = FMin(perfil.A,
                         FSub(FSub(perfil.A,
                                   FMul(FMul(D(2, 0), FSub(perfil.bf, ret.be_patin)),
                                        perfil.tf)),
                              FMul(FSub(FSub(perfil.d, FMul(D(2, 0), perfil.tf)),
                                        ret.be_alma),
                                   perfil.tw)))
        /\ FLe(ret.Ae, perfil.A)
        /\ clasificar_seccion(perfil).patin_compresion # "esbelta" =>
               ret.be_patin = perfil.bf
        /\ clasificar_seccion(perfil).alma_flexion # "esbelta" =>
               ret.be_alma = FSub(perfil.d, FMul(D(2, 0), perfil.tf))
        /\ ret.Fy_mod = FMul(perfil.Fy, FDiv(ret.Ae, perfil.A))
        /\ ret.Pn = FMul(ret.Fcr, ret.Ae)

\* C19 witness: the effective widths of a long column with slender flange and
\* web come out larger than the elements, and Ae has been clamped to A
C19_AreaClamped ==
    /\ EnRutaEsbelta
    /\ FGt(ret.be_patin, perfil.bf)
    /\ clasificar_seccion(perfil).patin_compresion = "esbelta"
    /\ ret.Ae = perfil.A

\* C20: at Lt exactly Lp the strong-axis nominal moment is the plastic moment
\* Fy * Zx both by the yielding formula the check applies there and by the
\* inelastic lateral-torsional formula F2-2 evaluated at Lt = Lp, for every Cb.
\* (Fails: F2-2 at Lt = Lp is Cb * Mp and is not capped at Mp.)
C20_ContinuousAtLp ==
    (/\ Devuelve("verificar_flexion_fuerte")
     /\ cargas.Lt = ret.Lp) =>
        /\ ret.estado_limite = "fluencia"
        /\ ret.Mn = FMul(perfil.Fy, perfil.Zx)
        /\ MnInelastico(perfil, cargas, ret.Lp, ret.Lr) = FMul(perfil.Fy, perfil.Zx)

\* C21: with Lt > Lr the strong-axis check is in the elastic
\* lateral-torsional regime ('pandeo_LT_elastico', F2-3) and Mn is
\* min(Fcr * Sx, Fy * Zx): the plastic moment when the elastic formula exceeds
\* it, Fcr * Sx otherwise.
C21_ElasticRegimeCapped ==
    (/\ Devuelve("verificar_flexion_fuerte")
     /\ FGt(cargas.Lt, ret.Lr)) =>
        /\ ret.estado_limite = "pandeo_LT_elastico"
        /\ ret.ecuaciones_ref[1] = "F2-3"
        /\ FGt(FMul(FcrElastico(perfil, cargas, ret.rts), perfil.Sx),
               FMul(perfil.Fy, perfil.Zx)) =>
               ret.Mn = FMul(perfil.Fy, perfil.Zx)
        /\ ~FGt(FMul(FcrElastico(perfil, cargas, ret.rts), perfil.Sx),
                FMul(perfil.Fy, perfil.Zx)) =>
               ret.Mn = FMul(FcrElastico(perfil, cargas, ret.rts), perfil.Sx)

\* C21 witness: beyond Lr with a large Cb the elastic formula exceeds the
\* plastic moment, and the check has answered the plastic moment
C21_CapActive ==
    /\ Devuelve("verificar_flexion_fuerte")
    /\ FGt(cargas.Lt, ret.Lr)
    /\ FGt(FMul(FcrElastico(perfil, cargas, ret.rts), perfil.Sx),
           FMul(perfil.Fy, perfil.Zx))
    /\ ret.Mn = FMul(perfil.Fy, perfil.Zx)

\* C22: with a flange that is slender under flexure, the weak-axis nominal
\* moment is (0.70 * E / lambda_f^2) * Sy, lambda_f being the classifier's
\* flange ratio bf / (2 * tf).
\* (Fails: the check divides by (bf / tf)^2, four times lambda_f^2.)
C22_SlenderFlangeWeakAxis ==
    (/\ Devuelve("verificar_flexion_debil")
     /\ ret.clasificacion = "esbelta") =>
        Cerca(ret.Mn,
              FMul(FDiv(FMul(D(70, -2), perfil.E),
                        Sq(clasificar_seccion(perfil).relaciones.lambda_f)),
                   perfil.Sy))

\* the flexure term m = Mrx / Mcx + Mry / Mcy of the interaction check handed
\* the previous results previos
TerminoFlexion(previos) ==
    FAdd(FDiv(FAbs(cargas.Mux), previos.flexion_eje_fuerte.Mb),
         FDiv(FAbs(cargas.Muy), previos.flexion_eje_debil.Mb))

\* an interaction check has returned a combined value with Pr / Pc exactly 0.2
EnElUmbral ==
    /\ Devuelve("verificar_interaccion_flexo_compresion")
    /\ ConValor(ret)
    /\ FDiv(FAbs(cargas.Pu), argumento.compresion.Pc) = D(2, -1)

\* C23: the jump of the combined value at the switch is kept: at Pr / Pc
\* exactly 0.2 the result is the H1-1a value 0.2 + (8/9) * m with
\* m = Mrx / Mcx + Mry / Mcy, which is the H1-1b value 0.1 + m only if m = 0.9.
C23_JumpAtThreshold ==
    EnElUmbral =>
        /\ ret.ecuacion_aplicada = "H1-1a"
        /\ ret.interaccion = FAdd(D(2, -1),
                                  FMul(FDiv(D(8, 0), D(9, 0)), TerminoFlexion(argumento)))
        /\ ret.interaccion = FAdd(D(1, -1), TerminoFlexion(argumento)) <=>
               TerminoFlexion(argumento) = D(9, -1)

\* C23 witness: at Pr / Pc = 0.2 with m = 1.0 the check has answered the
\* H1-1a value, which is below the H1-1b value
C23_ValuesDiffer ==
    /\ EnElUmbral
    /\ TerminoFlexion(argumento) = One
    /\ FLt(ret.interaccion, FAdd(D(1, -1), TerminoFlexion(argumento)))

\* C23: at Pr / Pc = 0.2 with m = 0.9 both equations give 1.0
C23_ValuesMeet ==
    /\ EnElUmbral
    /\ TerminoFlexion(argumento) = D(9, -1)
    /\ ret.interaccion = One

\* the interaction entry of the dict under construction holds a result
InteraccionHecha ==
    /\ "interaccion_flexo_compresion" \in DOMAIN parcial
    /\ Presente(parcial.interaccion_flexo_compresion)

\* C24: within one evaluation of validar_todo the interaction check starts
\* only after the compression check and every applicable flexure check have
\* completed; the Pc, Mcx and Mcy it uses are the 'Pc' of the compression slot
\* and the 'Mb' of the flexure slots of that evaluation; and whatever the order
\* of the tension, compression and flexure checks, the evaluation ends as
\* validar_todo does.
C24_InteractionAfterChecks ==
    /\ InteraccionHecha =>
           /\ paso \in {"retorno", "fuera"}
           /\ DOMAIN parcial = {"tipo"} \cup {OrdenFuente[i] : i \in 1..6}
           /\ Presente(parcial.compresion)
           /\ FGt(FAbs(cargas.Mux), Zero) => Presente(parcial.flexion_eje_fuerte)
           /\ FGt(FAbs(cargas.Muy), Zero) => Presente(parcial.flexion_eje_debil)
           /\ parcial.compresion = RetornoVerificarCompresion[<<perfil, cargas>>]
    /\ (InteraccionHecha /\ ConValor(parcial.interaccion_flexo_compresion)) =>
           /\ parcial.interaccion_flexo_compresion.Pc = parcial.compresion.Pc
           /\ parcial.interaccion_flexo_compresion.Mcx = parcial.flexion_eje_fuerte.Mb
           /\ parcial.interaccion_flexo_compresion.Mcy = parcial.flexion_eje_debil.Mb
    /\ (paso = "fuera" /\ op = "validar_todo") =>
           ret = RetornoValidarTodo[<<perfil, cargas>>]

\* C24 witness: an evaluation that took the weak-axis flexure check first and
\* the compression check last has returned an aggregate with a combined value
C24_OtherOrderSameResult ==
    /\ paso = "fuera"
    /\ op = "validar_todo"
    /\ orden[1] = "flexion_eje_debil"
    /\ orden[4] = "compresion"
    /\ ~IsExc(ret)
    /\ ConValor(ret.interaccion_flexo_compresion)

\* C25: through validar_todo the 'ERROR' outcome of the interaction check is
\* unreachable: when the interaction slot of an aggregate is filled its
\* compression slot is present, and the interaction slot is not an error record.
C25_NoErrorThroughAggregate ==
    (Devuelve("validar_todo") /\ Presente(ret.interaccion_flexo_compresion)) =>
        /\ Presente(ret.compresion)
        /\ ret.interaccion_flexo_compresion.estado \in {"PASA", "FALLA"}
        /\ "nota" \notin DOMAIN ret.interaccion_flexo_compresion
        /\ ConValor(ret.interaccion_flexo_compresion)

\* C25 witness: validar_todo has returned an aggregate with the interaction
\* slot filled from its compression slot
C25_InteractionFilled ==
    /\ Devuelve("validar_todo")
    /\ Presente(ret.interaccion_flexo_compresion)
    /\ ret.interaccion_flexo_compresion.Pc = ret.compresion.Pc

\* C26: for every Lt and every Cb >= 1 the strong-axis nominal moment does not
\* exceed the plastic moment Fy * Zx, in the three regimes.
\* (Fails: F2-2 multiplies by Cb and is not capped at Mp.)
C26_MnWithinPlasticMoment ==
    (Devuelve("verificar_flexion_fuerte") /\ FGe(cargas.Cb, One)) =>
        FLe(ret.Mn, FMul(perfil.Fy, perfil.Zx))

\* axial demands below Pr: 0, Pr / 4, Pr / 2 and 3 * Pr / 4
DemandasMenores(Pr) == {FMul(D(25 * k, -2), Pr) : k \in 0..3}

EnRutaEstandar ==
    /\ Devuelve("verificar_compresion")
    /\ "tipo_analisis" \notin DOMAIN ret

\* C28: the flange is never less slender under flexure than under compression:
\* patin_compresion = 'esbelta' implies patin_flexion = 'esbelta', and
\* patin_flexion = 'compacta' implies patin_compresion = 'compacta'.
C28_FlexureClassNotBelowCompression ==
    Devuelve("clasificar_seccion") =>
        /\ ret.patin_compresion = "esbelta" => ret.patin_flexion = "esbelta"
        /\ ret.patin_flexion = "compacta" => ret.patin_compresion = "compacta"
        /\ FLt(ret.relaciones.lambda_p_f_flex, ret.relaciones.lambda_p_f_comp)
        /\ FLt(ret.relaciones.lambda_r_f_flex, ret.relaciones.lambda_r_f_comp)

\* C28 witness: a flange between the limits 1.0 and 1.49 times sqrt(E / Fy) has
\* been classified slender under flexure and noncompact under compression
C28_StricterUnderFlexure ==
    /\ Devuelve("clasificar_seccion")
    /\ ret.patin_flexion = "esbelta"
    /\ ret.patin_compresion = "no_compacta"

\* C29: in the standard compression path KL/r <= 4.71 * sqrt(E / Fy) implies
\* Fy / Fe <= 2.25, so the regime is 'inelastico' exactly when Fy / Fe <= 2.25
\* and 'elastico' exactly when Fy / Fe > 2.25.
C29_RegimeByStressRatioAlone ==
    EnRutaEstandar =>
        /\ ret.lambda_c = FDiv(perfil.Fy, ret.Fe)
        /\ FLe(ret.KL_r_gobernante,
               FMul(D(471, -2), FSqrt(FDiv(perfil.E, perfil.Fy)))) =>
               FLe(ret.lambda_c, D(225, -2))
        /\ ret.modo_pandeo = "inelastico" <=> FLe(ret.lambda_c, D(225, -2))
        /\ ret.modo_pandeo = "elastico" <=> FGt(ret.lambda_c, D(225, -2))

\* C29 witness: a column exactly at the slenderness limit has been checked,
\* with Fy / Fe between 2.24 and 2.25
C29_AtSlendernessLimit ==
    /\ EnRutaEstandar
    /\ ret.KL_r_gobernante = FMul(D(471, -2), FSqrt(FDiv(perfil.E, perfil.Fy)))
    /\ FGt(ret.lambda_c, D(224, -2))
    /\ FLe(ret.lambda_c, D(225, -2))
    /\ ret.modo_pandeo = "inelastico"

\* the outcome r of validar_todo with the echoed applied moments replaced by
\* their magnitudes
SinSigno(r) ==
    IF IsExc(r) THEN r
    ELSE [r EXCEPT
            !.flexion_eje_fuerte =
                IF IsNone(@) THEN @ ELSE [@ EXCEPT !.Mux_aplicada = FAbs(@)],
            !.flexion_eje_debil =
                IF IsNone(@) THEN @ ELSE [@ EXCEPT !.Muy_aplicada = FAbs(@)]]

\* the validator of this state with Mux and Muy multiplied by sx and sy
ConSignos(sx, sy) ==
    <<perfil, [cargas EXCEPT !.Mux = FMul(D(sx, 0), @), !.Muy = FMul(D(sy, 0), @)]>>

\* C30: validar_todo depends on the moments through their magnitudes only:
\* with Mux replaced by -Mux and/or Muy by -Muy the slots present, the
\* capacities, the RDC, the verdicts and the interaction value are the same;
\* only Mux_aplicada and Muy_aplicada change sign.
C30_MomentSignIrrelevant ==
    op = "validar_todo" =>
        \A sx \in {1, -1}, sy \in {1, -1} :
            ConSignos(sx, sy) \in Casos =>
                /\ SinSigno(RetornoValidarTodo[ConSignos(sx, sy)]) = SinSigno(ret)
                /\ (~IsExc(ret) /\ Presente(ret.flexion_eje_fuerte)) =>
                       RetornoValidarTodo[ConSignos(sx, sy)].flexion_eje_fuerte.Mux_aplicada
                           = FMul(D(sx, 0), ret.flexion_eje_fuerte.Mux_aplicada)
                /\ (~IsExc(ret) /\ Presente(ret.flexion_eje_debil)) =>
                       RetornoValidarTodo[ConSignos(sx, sy)].flexion_eje_debil.Muy_aplicada
                           = FMul(D(sy, 0), ret.flexion_eje_debil.Muy_aplicada)

\* C30 witness: validar_todo has returned a combined value for a negative Mux
\* and a positive Muy, and the validator with both signs changed is a case too
C30_NegativeMomentChecked ==
    /\ Devuelve("validar_todo")
    /\ FLt(cargas.Mux, Zero)
    /\ FGt(cargas.Muy, Zero)
    /\ ConValor(ret.interaccion_flexo_compresion)
    /\ FLt(ret.flexion_eje_fuerte.Mux_aplicada, Zero)
    /\ ConSignos(-1, -1) \in Casos
    /\ ConSignos(-1, -1) # <<perfil, cargas>>

=============================================================================
